---- MODULE Spec2Model ----
(***************************************************************************)
(* A model of discord/embeds.py: the Embed value object, its dataclasses   *)
(* (EmbedField, EmbedFooter, EmbedAuthor), its mutators, and the           *)
(* to_dict / from_dict / copy serialisation; and of the paginator views    *)
(* of examples/views: paginator.py, paginators/advanced.py and             *)
(* basic_paginator.py.                                                     *)
(*                                                                         *)
(* Python values are tagged records, so that EmptyEmbed, None, str, int    *)
(* and Colour stay distinguishable.  An instance attribute that may be     *)
(* absent (AttributeError on read) is a sequence of length at most one:    *)
(* << >> is "no such attribute", <<v>> is "attribute holds v".  Lists of   *)
(* fields live in a heap indexed by reference, so that two embeds sharing  *)
(* one list object is a state the model can express.                       *)
(***************************************************************************)
EXTENDS Integers, Sequences, FiniteSets, TLC

VARIABLES emb, heap, ret, view, message

vars == <<emb, heap, ret, view, message>>

-----------------------------------------------------------------------------
(* Python values                                                           *)

EmptyEmbed == [t |-> "Empty", s |-> "", n |-> 0]
PyNone == [t |-> "None", s |-> "", n |-> 0]
PyStr(x) == [t |-> "str", s |-> x, n |-> 0]
PyInt(k) == [t |-> "int", s |-> "", n |-> k]
Colour(k) == [t |-> "Colour", s |-> "", n |-> k]

(* datetime.datetime: a wall-clock reading in minutes and a tzinfo, which  *)
(* is << >> for a naive value and <<offset>> (minutes east of UTC) for an  *)
(* aware one.                                                              *)
datetime(wall, tz) == [t |-> "datetime", wall |-> wall, tz |-> tz]

Digit == <<"0", "1", "2", "3", "4", "5", "6", "7", "8", "9">>

RECURSIVE IntToStr(_)
IntToStr(k) ==
    IF k < 10 THEN Digit[k + 1] ELSE IntToStr(k \div 10) \o Digit[(k % 10) + 1]

(* str(v) for the values the model passes around.                          *)
str(v) ==
    CASE v.t = "str" -> v
      [] v.t = "int" -> PyStr(IntToStr(v.n))
      [] v.t = "None" -> PyStr("None")
      [] v.t = "Empty" -> PyStr("Embed.Empty")
      [] OTHER -> PyStr("#colour")

(* bool(v): _EmptyEmbed.__bool__ is False, None is falsy, a str is truthy  *)
(* when non-empty, an int when non-zero; other objects are truthy.         *)
bool(v) ==
    CASE v.t = "Empty" -> FALSE
      [] v.t = "None" -> FALSE
      [] v.t = "str" -> v.s # ""
      [] v.t = "int" -> v.n # 0
      [] OTHER -> TRUE

(* len(v): _EmptyEmbed.__len__ is 0, a str has its length.                 *)
len(v) == IF v.t = "str" THEN Len(v.s) ELSE 0

(* x or y *)
PyOr(x, y) == IF bool(x) THEN x ELSE y

(* A successful or failed call: err is "none" or the exception's class.    *)
Ok(v) == [err |-> "none", v |-> v]
Raise(e, v) == [err |-> e, v |-> v]

(* Attributes that may be absent.                                          *)
hasattr(slot) == slot # << >>
getattr(slot, default) == IF slot # << >> THEN slot[1] ELSE default

(* dict helpers: a dict is a function from its keys.                       *)
dict_get(d, k, default) == IF k \in DOMAIN d THEN d[k] ELSE default
dict_pop(d, k) == [x \in (DOMAIN d) \ {k} |-> d[x]]
dict_set(d, k, v) == (k :> v) @@ d

-----------------------------------------------------------------------------
(* The dataclasses                                                         *)

(* EmbedField(name, value, inline=False): name and value are required.     *)
EmbedField(kw) ==
    IF ~(DOMAIN kw \subseteq {"name", "value", "inline"})
       \/ ~({"name", "value"} \subseteq DOMAIN kw)
    THEN Raise("TypeError", [name |-> EmptyEmbed, value |-> EmptyEmbed, inline |-> FALSE])
    ELSE Ok([name |-> kw["name"], value |-> kw["value"],
             inline |-> dict_get(kw, "inline", FALSE)])

isEmbedField(x) == DOMAIN x = {"name", "value", "inline"}

EmbedField_len(f) == len(f.name) + len(f.value)

EmbedField_to_dict(f) == [name |-> f.name, value |-> f.value, inline |-> f.inline]

EmbedField_edit(f, name, value, inline) ==
    [name |-> name, value |-> value, inline |-> inline]

(* EmbedFooter(text=Empty, icon_url=Empty, proxy_icon_url=Empty), frozen.  *)
EmbedFooter(kw) ==
    IF ~(DOMAIN kw \subseteq {"text", "icon_url", "proxy_icon_url"})
    THEN Raise("TypeError", [text |-> EmptyEmbed, icon_url |-> EmptyEmbed,
                             proxy_icon_url |-> EmptyEmbed])
    ELSE Ok([text |-> dict_get(kw, "text", EmptyEmbed),
             icon_url |-> dict_get(kw, "icon_url", EmptyEmbed),
             proxy_icon_url |-> dict_get(kw, "proxy_icon_url", EmptyEmbed)])

isEmbedFooter(x) == DOMAIN x = {"text", "icon_url", "proxy_icon_url"}

EmbedFooter_len(f) == len(f.text)

EmbedFooter_to_dict(f) ==
    (IF f.text # EmptyEmbed THEN ("text" :> f.text) ELSE << >>)
    @@ (IF f.icon_url # EmptyEmbed THEN ("icon_url" :> f.icon_url) ELSE << >>)

(* EmbedAuthor(name, url=Empty, icon_url=Empty, proxy_icon_url=Empty),     *)
(* frozen: name has no default, so EmbedAuthor() raises TypeError.         *)
EmbedAuthor(kw) ==
    IF ~(DOMAIN kw \subseteq {"name", "url", "icon_url", "proxy_icon_url"})
       \/ "name" \notin DOMAIN kw
    THEN Raise("TypeError", [name |-> EmptyEmbed, url |-> EmptyEmbed,
                             icon_url |-> EmptyEmbed, proxy_icon_url |-> EmptyEmbed])
    ELSE Ok([name |-> kw["name"],
             url |-> dict_get(kw, "url", EmptyEmbed),
             icon_url |-> dict_get(kw, "icon_url", EmptyEmbed),
             proxy_icon_url |-> dict_get(kw, "proxy_icon_url", EmptyEmbed)])

isEmbedAuthor(x) == DOMAIN x = {"name", "url", "icon_url", "proxy_icon_url"}

EmbedAuthor_len(a) == len(a.name)

EmbedAuthor_to_dict(a) ==
    (IF a.name # EmptyEmbed THEN ("name" :> a.name) ELSE << >>)
    @@ (IF a.icon_url # EmptyEmbed THEN ("icon_url" :> a.icon_url) ELSE << >>)
    @@ (IF a.url # EmptyEmbed THEN ("url" :> a.url) ELSE << >>)

(* EmbedProxy(layer): attribute reads fall back to EmptyEmbed; its length  *)
(* is the number of entries of the layer.                                  *)
EmbedProxy_getattr(layer, attr) == dict_get(layer, attr, EmptyEmbed)
EmbedProxy_len(layer) == Cardinality(DOMAIN layer)

-----------------------------------------------------------------------------
(* Embed: construction and the property getters / setters                  *)

(* The outcome of a method: the exception raised ("none" if none), the     *)
(* instance and the heap afterwards, and whether the call returned the     *)
(* instance itself (as opposed to None).                                   *)
Done(self, h, returnsSelf) ==
    [err |-> "none", emb |-> self, heap |-> h, self |-> returnsSelf]
Raised(e, self, h) == [err |-> e, emb |-> self, heap |-> h, self |-> FALSE]

(* "return self" after a step r that did not raise.                        *)
Returning(r) == IF r.err # "none" THEN r ELSE [r EXCEPT !.self = TRUE]

(* A reference no list of the heap uses yet.                               *)
NewRef(h) ==
    CHOOSE r \in 1..(Cardinality(DOMAIN h) + 1) :
        /\ r \notin DOMAIN h
        /\ \A q \in 1..(r - 1) : q \in DOMAIN h

(* Variant: the element goes to the end, whatever the index.               *)
list_insert_append(l, index, x) == Append(l, x)
(* list.insert(index, x) and the index a subscript or del resolves to.     *)
list_insert(l, index, x) ==
    LET n == Len(l)
        i == IF index < 0 THEN (IF index + n < 0 THEN 0 ELSE index + n)
             ELSE (IF index > n THEN n ELSE index)
    IN  SubSeq(l, 1, i) \o <<x>> \o SubSeq(l, i + 1, n)
list_index(l, index) == IF index < 0 THEN index + Len(l) ELSE index
list_has(l, index) == list_index(l, index) >= 0 /\ list_index(l, index) < Len(l)

(* Variant: del removes the last element, whatever the index.              *)
list_del_last(l, index) == SubSeq(l, 1, Len(l) - 1)
list_del(l, index) ==
    LET i == list_index(l, index)
    IN  SubSeq(l, 1, i) \o SubSeq(l, i + 2, Len(l))

(* Variant: an absent type becomes "rich", as in the constructor.          *)
Embed_new_default_type(title, type, url, description) ==
    [title |-> title, type |-> IF type = EmptyEmbed THEN PyStr("rich") ELSE type,
     url |-> url, description |-> description,
     _colour |-> << >>, _timestamp |-> << >>, _footer |-> << >>,
     _author |-> << >>, _fields |-> << >>, _image |-> << >>,
     _thumbnail |-> << >>, _video |-> << >>, _provider |-> << >>]

(* cls.__new__(cls): an instance with no attribute set; the four plain     *)
(* attributes are assigned by both __init__ and from_dict before use.      *)
Embed_new(title, type, url, description) ==
    [title |-> title, type |-> type, url |-> url, description |-> description,
     _colour |-> << >>, _timestamp |-> << >>, _footer |-> << >>,
     _author |-> << >>, _fields |-> << >>, _image |-> << >>,
     _thumbnail |-> << >>, _video |-> << >>, _provider |-> << >>]

colour(self) == getattr(self._colour, EmptyEmbed)

(* Variant: the value is stored without looking at its type.               *)
colour_setter_unchecked(self, h, value) ==
    Done([self EXCEPT !._colour = <<value>>], h, FALSE)
colour_setter(self, h, value) ==
    IF value.t \in {"Colour", "Empty"}
    THEN Done([self EXCEPT !._colour = <<value>>], h, FALSE)
    ELSE IF value.t = "int"
    THEN Done([self EXCEPT !._colour = <<Colour(value.n)>>], h, FALSE)
    ELSE Raised("TypeError", self, h)

(* color = colour: the alias is the same property, getter and setter.      *)
color(self) == colour(self)
color_setter(self, h, value) == colour_setter(self, h, value)
(* The offset of the process's local timezone, in minutes.                 *)
LocalOffset == 60

(* datetime.astimezone(): a naive value is taken to be local time.         *)
astimezone(dt) == IF dt.tz = << >> THEN datetime(dt.wall, <<LocalOffset>>) ELSE dt
(* datetime.astimezone(tz=utc) of an aware value.                          *)
astimezone_utc(dt) == datetime(dt.wall - dt.tz[1], <<0>>)
(* datetime.isoformat() of an aware value: the reading and its offset.     *)
isoformat(dt) == [t |-> "iso", wall |-> dt.wall, off |-> dt.tz[1]]
parse_time(iso) == datetime(iso.wall, <<iso.off>>)

timestamp(self) == getattr(self._timestamp, EmptyEmbed)

timestamp_setter(self, h, value) ==
    IF value.t = "datetime"
    THEN Done([self EXCEPT !._timestamp =
                   <<IF value.tz = << >> THEN astimezone(value) ELSE value>>], h, FALSE)
    ELSE IF value.t = "Empty"
    THEN Done([self EXCEPT !._timestamp = <<value>>], h, FALSE)
    ELSE Raised("TypeError", self, h)

(* The getters build their default before looking the attribute up.        *)
footer(self) ==
    LET default == EmbedFooter(<< >>)
    IN  IF default.err # "none" THEN default
        ELSE Ok(getattr(self._footer, default.v))

footer_deleter(self, h) == Done([self EXCEPT !._footer = << >>], h, FALSE)

footer_setter(self, h, value) ==
    IF value = EmptyEmbed
    THEN IF hasattr(self._footer)
         THEN Done([self EXCEPT !._footer = << >>], h, FALSE)
         ELSE Raised("AttributeError", self, h)
    ELSE IF ~isEmbedFooter(value)
    THEN Raised("TypeError", self, h)
    ELSE Done([self EXCEPT !._footer = <<value>>], h, FALSE)

author(self) ==
    LET default == EmbedAuthor(<< >>)
    IN  IF default.err # "none" THEN default
        ELSE Ok(getattr(self._author, default.v))

author_deleter(self, h) == Done([self EXCEPT !._author = << >>], h, FALSE)

author_setter(self, h, value) ==
    IF value = EmptyEmbed
    THEN IF hasattr(self._author)
         THEN Done([self EXCEPT !._author = << >>], h, FALSE)
         ELSE Raised("AttributeError", self, h)
    ELSE IF ~isEmbedAuthor(value)
    THEN Raised("TypeError", self, h)
    ELSE Done([self EXCEPT !._author = <<value>>], h, FALSE)

(* image / thumbnail / video / provider: the layer an EmbedProxy wraps.    *)
image(self) == getattr(self._image, << >>)
thumbnail(self) == getattr(self._thumbnail, << >>)
video(self) == getattr(self._video, << >>)
provider(self) == getattr(self._provider, << >>)

image_deleter(self, h) == Done([self EXCEPT !._image = << >>], h, FALSE)

(* Variant: the url is written into the dict already stored.               *)
image_setter_in_place(self, h, url) ==
    IF url = EmptyEmbed THEN image_deleter(self, h)
    ELSE Done([self EXCEPT !._image = <<("url" :> str(url)) @@ image(self)>>], h, FALSE)
image_setter(self, h, url) ==
    IF url = EmptyEmbed THEN image_deleter(self, h)
    ELSE Done([self EXCEPT !._image = <<("url" :> str(url))>>], h, FALSE)

thumbnail_deleter(self, h) == Done([self EXCEPT !._thumbnail = << >>], h, FALSE)
thumbnail_setter(self, h, url) ==
    IF url = EmptyEmbed THEN thumbnail_deleter(self, h)
    ELSE Done([self EXCEPT !._thumbnail = <<("url" :> str(url))>>], h, FALSE)

(* The list the fields property returns: the stored one, or a new [].      *)
fields(self, h) == IF hasattr(self._fields) THEN h[self._fields[1]] ELSE << >>

fields_deleter(self, h) == Done([self EXCEPT !._fields = << >>], h, FALSE)

(* clear_fields() returns None.                                            *)
clear_fields(self, h) == fields_deleter(self, h)

(* The number of fields the fields setter accepts.                         *)
MaxFields == 25

(* Variant: the maximum is compared with >= instead of >.                  *)
fields_setter_off_by_one(self, h, value) ==
    IF value.t = "Empty" \/ value.items = << >>
    THEN clear_fields(self, h)
    ELSE IF ~(\A i \in 1..Len(value.items) : isEmbedField(value.items[i]))
    THEN Raised("TypeError", self, h)
    ELSE IF Len(value.items) >= MaxFields
    THEN Raised("ValueError", self, h)
    ELSE LET r == NewRef(h)
         IN  Done([self EXCEPT !._fields = <<r>>], (r :> value.items) @@ h, FALSE)

(* Variant: the length is checked before the elements' type.               *)
fields_setter_length_first(self, h, value) ==
    IF value.t = "Empty" \/ value.items = << >>
    THEN clear_fields(self, h)
    ELSE IF Len(value.items) > MaxFields
    THEN Raised("ValueError", self, h)
    ELSE IF ~(\A i \in 1..Len(value.items) : isEmbedField(value.items[i]))
    THEN Raised("TypeError", self, h)
    ELSE LET r == NewRef(h)
         IN  Done([self EXCEPT !._fields = <<r>>], (r :> value.items) @@ h, FALSE)
(* value is EmptyEmbed or [t |-> "list", items |-> <<...>>].               *)
fields_setter(self, h, value) ==
    IF value.t = "Empty" \/ value.items = << >>
    THEN clear_fields(self, h)
    ELSE IF ~(\A i \in 1..Len(value.items) : isEmbedField(value.items[i]))
    THEN Raised("TypeError", self, h)
    ELSE IF Len(value.items) > MaxFields
    THEN Raised("ValueError", self, h)
    ELSE LET r == NewRef(h)
         IN  Done([self EXCEPT !._fields = <<r>>], (r :> value.items) @@ h, FALSE)

-----------------------------------------------------------------------------
(* Embed: the mutating methods                                             *)

(* Variant: a part left out is kept from the footer already stored.        *)
set_footer_merging(self, h, text, icon_url) ==
    LET old == footer(self).v
        f == [text |-> IF text # EmptyEmbed THEN str(text) ELSE old.text,
              icon_url |-> IF icon_url # EmptyEmbed THEN str(icon_url) ELSE old.icon_url,
              proxy_icon_url |-> EmptyEmbed]
    IN  Done([self EXCEPT !._footer = <<f>>], h, TRUE)
set_footer(self, h, text, icon_url) ==
    LET kw == (IF text # EmptyEmbed THEN ("text" :> str(text)) ELSE << >>)
              @@ (IF icon_url # EmptyEmbed THEN ("icon_url" :> str(icon_url)) ELSE << >>)
        f == EmbedFooter(kw)
    IN  IF f.err # "none" THEN Raised(f.err, self, h)
        ELSE Done([self EXCEPT !._footer = <<f.v>>], h, TRUE)

remove_footer(self, h) == Done(footer_deleter(self, h).emb, h, TRUE)

set_author(self, h, name, url, icon_url) ==
    LET kw == ("name" :> str(name))
              @@ (IF url # EmptyEmbed THEN ("url" :> str(url)) ELSE << >>)
              @@ (IF icon_url # EmptyEmbed THEN ("icon_url" :> str(icon_url)) ELSE << >>)
        a == EmbedAuthor(kw)
    IN  IF a.err # "none" THEN Raised(a.err, self, h)
        ELSE Returning(author_setter(self, h, a.v))

remove_author(self, h) == Done(author_deleter(self, h).emb, h, TRUE)

(* Variant: without the final "return self".                              *)
set_image_returning_none(self, h, url) == image_setter(self, h, url)

set_image(self, h, url) == Returning(image_setter(self, h, url))

set_thumbnail(self, h, url) == Returning(thumbnail_setter(self, h, url))

(* self._fields.append(field), or self._fields = [field] when the          *)
(* attribute is absent.                                                    *)
append_field(self, h, field) ==
    IF ~isEmbedField(field) THEN Raised("TypeError", self, h)
    ELSE IF hasattr(self._fields)
    THEN Done(self, [h EXCEPT ![self._fields[1]] = Append(@, field)], TRUE)
    ELSE LET r == NewRef(h)
         IN  Done([self EXCEPT !._fields = <<r>>], (r :> <<field>>) @@ h, TRUE)

add_field(self, h, name, value, inline) ==
    LET f == EmbedField([inline |-> inline, name |-> str(name), value |-> str(value)])
    IN  IF f.err # "none" THEN Raised(f.err, self, h)
        ELSE append_field(self, h, f.v)

insert_field_at(self, h, index, name, value, inline) ==
    LET f == EmbedField([inline |-> inline, name |-> str(name), value |-> str(value)])
    IN  IF f.err # "none" THEN Raised(f.err, self, h)
        ELSE IF hasattr(self._fields)
        THEN Done(self, [h EXCEPT ![self._fields[1]] = list_insert(@, index, f.v)], TRUE)
        ELSE LET r == NewRef(h)
             IN  Done([self EXCEPT !._fields = <<r>>], (r :> <<f.v>>) @@ h, TRUE)

(* Variant: the IndexError of del is not caught.                           *)
remove_field_uncaught(self, h, index) ==
    IF ~hasattr(self._fields) THEN Done(self, h, FALSE)
    ELSE IF ~list_has(h[self._fields[1]], index) THEN Raised("IndexError", self, h)
    ELSE Done(self, [h EXCEPT ![self._fields[1]] = list_del(@, index)], FALSE)

(* del self._fields[index]; AttributeError and IndexError are swallowed.   *)
(* The method returns None.                                                *)
remove_field(self, h, index) ==
    IF ~hasattr(self._fields) THEN Done(self, h, FALSE)
    ELSE IF ~list_has(h[self._fields[1]], index) THEN Done(self, h, FALSE)
    ELSE Done(self, [h EXCEPT ![self._fields[1]] = list_del(@, index)], FALSE)

(* Variant: an index with no field is ignored, as remove_field does.       *)
set_field_at_ignoring(self, h, index, name, value, inline) ==
    IF ~hasattr(self._fields) THEN Done(self, h, TRUE)
    ELSE IF ~list_has(h[self._fields[1]], index) THEN Done(self, h, TRUE)
    ELSE LET r == self._fields[1]
             i == list_index(h[r], index) + 1
             field == h[r][i]
         IN  Done(self,
                  [h EXCEPT ![r][i] =
                      EmbedField_edit(field,
                                      str(PyOr(name, field.name)),
                                      str(PyOr(value, field.value)),
                                      inline)],
                  TRUE)

(* Variant: the arguments are stored as they come, with no "or".           *)
set_field_at_no_retain(self, h, index, name, value, inline) ==
    IF ~hasattr(self._fields) THEN Raised("IndexError", self, h)
    ELSE IF ~list_has(h[self._fields[1]], index) THEN Raised("IndexError", self, h)
    ELSE LET r == self._fields[1]
             i == list_index(h[r], index) + 1
             field == h[r][i]
         IN  Done(self,
                  [h EXCEPT ![r][i] = EmbedField_edit(field, str(name), str(value), inline)],
                  TRUE)

(* Variant: the inline flag of the field is kept, whatever is passed.      *)
set_field_at_keeping_inline(self, h, index, name, value, inline) ==
    IF ~hasattr(self._fields) THEN Raised("IndexError", self, h)
    ELSE IF ~list_has(h[self._fields[1]], index) THEN Raised("IndexError", self, h)
    ELSE LET r == self._fields[1]
             i == list_index(h[r], index) + 1
             field == h[r][i]
         IN  Done(self,
                  [h EXCEPT ![r][i] =
                      EmbedField_edit(field,
                                      str(PyOr(name, field.name)),
                                      str(PyOr(value, field.value)),
                                      field.inline)],
                  TRUE)

(* name and value default to None, inline to True.                         *)
set_field_at(self, h, index, name, value, inline) ==
    IF ~hasattr(self._fields) THEN Raised("IndexError", self, h)
    ELSE IF ~list_has(h[self._fields[1]], index) THEN Raised("IndexError", self, h)
    ELSE LET r == self._fields[1]
             i == list_index(h[r], index) + 1
             field == h[r][i]
         IN  IF ~bool(name) /\ ~bool(value) /\ inline = field.inline
             THEN Done(self, h, TRUE)
             ELSE Done(self,
                       [h EXCEPT ![r][i] =
                           EmbedField_edit(field,
                                           str(PyOr(name, field.name)),
                                           str(PyOr(value, field.value)),
                                           IF inline # field.inline THEN inline
                                           ELSE field.inline)],
                       TRUE)

-----------------------------------------------------------------------------
(* Embed: __init__, to_dict, from_dict, copy, __len__, __bool__            *)

(* __init__, statement by statement; kw holds the keyword arguments the   *)
(* caller passed, r the outcome of the statements before.                  *)
init_colour(self, h, kw) ==
    colour_setter(self, h,
                  IF dict_get(kw, "colour", EmptyEmbed) # EmptyEmbed
                  THEN dict_get(kw, "colour", EmptyEmbed)
                  ELSE dict_get(kw, "color", EmptyEmbed))

init_timestamp(r, kw) ==
    IF r.err = "none" /\ bool(dict_get(kw, "timestamp", PyNone))
    THEN timestamp_setter(r.emb, r.heap, kw["timestamp"]) ELSE r

init_fields(r, kw) ==
    IF r.err = "none" /\ dict_get(kw, "fields", << >>) # << >>
    THEN fields_setter(r.emb, r.heap, [t |-> "list", items |-> kw["fields"]]) ELSE r

init_str(r) ==
    IF r.err # "none" THEN r
    ELSE [r EXCEPT !.emb.title = IF @ # EmptyEmbed THEN str(@) ELSE @,
                   !.emb.description = IF @ # EmptyEmbed THEN str(@) ELSE @,
                   !.emb.url = IF @ # EmptyEmbed THEN str(@) ELSE @]

init_image(r, kw) ==
    IF r.err = "none" /\ dict_get(kw, "image", EmptyEmbed) # EmptyEmbed
    THEN image_setter(r.emb, r.heap, str(kw["image"])) ELSE r

init_thumbnail(r, kw) ==
    IF r.err = "none" /\ dict_get(kw, "thumbnail", EmptyEmbed) # EmptyEmbed
    THEN thumbnail_setter(r.emb, r.heap, str(kw["thumbnail"])) ELSE r

init_footer(r, kw) ==
    IF r.err = "none" /\ dict_get(kw, "footer", EmptyEmbed) # EmptyEmbed
    THEN footer_setter(r.emb, r.heap, kw["footer"]) ELSE r

init_author(r, kw) ==
    IF r.err = "none" /\ dict_get(kw, "author", EmptyEmbed) # EmptyEmbed
    THEN author_setter(r.emb, r.heap, kw["author"]) ELSE r

__init__(kw, h) ==
    init_author(
      init_footer(
        init_thumbnail(
          init_image(
            init_str(
              init_fields(
                init_timestamp(
                  init_colour(Embed_new(dict_get(kw, "title", EmptyEmbed),
                                        dict_get(kw, "type", PyStr("rich")),
                                        dict_get(kw, "url", EmptyEmbed),
                                        dict_get(kw, "description", EmptyEmbed)),
                              h, kw),
                  kw),
                kw)),
            kw),
          kw),
        kw),
      kw)

(* to_dict, loop by loop.  "not attr_value" for the three dataclass        *)
(* attributes: an object with __len__ is falsy when its length is 0.       *)
to_dict_dataclasses(self, h) ==
    (IF hasattr(self._footer) /\ EmbedFooter_len(self._footer[1]) # 0
     THEN ("footer" :> EmbedFooter_to_dict(self._footer[1])) ELSE << >>)
    @@ (IF hasattr(self._author) /\ EmbedAuthor_len(self._author[1]) # 0
        THEN ("author" :> EmbedAuthor_to_dict(self._author[1])) ELSE << >>)
    @@ (IF hasattr(self._fields) /\ Len(h[self._fields[1]]) # 0
        THEN ("fields" :> [i \in 1..Len(h[self._fields[1]]) |->
                              EmbedField_to_dict(h[self._fields[1]][i])])
        ELSE << >>)

(* The stored dict itself goes into the result, unless it is empty.        *)
to_dict_images(self, result) ==
    (IF hasattr(self._image) /\ DOMAIN self._image[1] # {}
     THEN ("image" :> self._image[1]) ELSE << >>)
    @@ (IF hasattr(self._thumbnail) /\ DOMAIN self._thumbnail[1] # {}
        THEN ("thumbnail" :> self._thumbnail[1]) ELSE << >>)
    @@ result

(* result.pop("colour"): a KeyError, which is passed over, unless the key  *)
(* is in result.                                                           *)
to_dict_colour(result) ==
    IF "colour" \notin DOMAIN result THEN result
    ELSE IF bool(result["colour"])
         THEN dict_set(dict_pop(result, "colour"), "color", result["colour"].n)
         ELSE dict_pop(result, "colour")

(* result.pop("timestamp"), likewise.                                      *)
to_dict_timestamp(result) ==
    IF "timestamp" \notin DOMAIN result THEN result
    ELSE IF ~bool(result["timestamp"]) THEN dict_pop(result, "timestamp")
    ELSE IF result["timestamp"].tz # << >>
         THEN dict_set(result, "timestamp",
                       isoformat(astimezone_utc(result["timestamp"])))
         ELSE dict_set(result, "timestamp",
                       isoformat(datetime(result["timestamp"].wall, <<0>>)))

(* Variant: an attribute is written unless it is the Empty sentinel.       *)
to_dict_plain_not_empty(self, result) ==
    (IF self.title # EmptyEmbed THEN ("title" :> self.title) ELSE << >>)
    @@ (IF self.url # EmptyEmbed THEN ("url" :> self.url) ELSE << >>)
    @@ (IF self.description # EmptyEmbed
        THEN ("description" :> self.description) ELSE << >>)
    @@ (IF self.type # EmptyEmbed THEN ("type" :> self.type) ELSE << >>)
    @@ result
(* Variant: the four plain attributes are written whether set or not.      *)
to_dict_plain_unfiltered(self, result) ==
    ("title" :> self.title) @@ ("url" :> self.url)
    @@ ("description" :> self.description) @@ ("type" :> self.type) @@ result

(* type, description, url and title are added when truthy.                 *)
to_dict_plain(self, result) ==
    (IF bool(self.title) THEN ("title" :> self.title) ELSE << >>)
    @@ (IF bool(self.url) THEN ("url" :> self.url) ELSE << >>)
    @@ (IF bool(self.description) THEN ("description" :> self.description) ELSE << >>)
    @@ (IF bool(self.type) THEN ("type" :> self.type) ELSE << >>)
    @@ result

to_dict(self, h) ==
    to_dict_plain(self,
        to_dict_timestamp(to_dict_colour(
            to_dict_images(self, to_dict_dataclasses(self, h)))))

(* Variant: the last loop leaves "thumbnail" out of its tuple.              *)
from_dict_without_thumbnail(data, h) ==
    LET plain(k) == dict_get(data, k, EmptyEmbed)
        coerced(k) == IF plain(k) # EmptyEmbed THEN str(plain(k)) ELSE plain(k)
        s0 == Embed_new(coerced("title"), plain("type"), coerced("url"),
                        coerced("description"))
        s1 == [s0 EXCEPT
                 !._colour = IF "color" \in DOMAIN data
                             THEN <<Colour(data["color"])>> ELSE << >>,
                 !._timestamp = IF "timestamp" \in DOMAIN data
                                THEN <<parse_time(data["timestamp"])>> ELSE << >>]
        f == IF "footer" \in DOMAIN data THEN EmbedFooter(data["footer"]) ELSE Ok(<< >>)
        a == IF "author" \in DOMAIN data THEN EmbedAuthor(data["author"]) ELSE Ok(<< >>)
        items == IF "fields" \in DOMAIN data
                 THEN [i \in 1..Len(data["fields"]) |-> EmbedField(data["fields"][i])]
                 ELSE << >>
        r == NewRef(h)
        media(k) == IF k \in DOMAIN data THEN <<data[k]>> ELSE << >>
    IN  IF f.err # "none" THEN Raised(f.err, s1, h)
        ELSE IF a.err # "none" THEN Raised(a.err, s1, h)
        ELSE IF \E i \in 1..Len(items) : items[i].err # "none"
        THEN Raised("TypeError", s1, h)
        ELSE Done([s1 EXCEPT
                     !._footer = IF "footer" \in DOMAIN data THEN <<f.v>> ELSE << >>,
                     !._author = IF "author" \in DOMAIN data THEN <<a.v>> ELSE << >>,
                     !._fields = IF "fields" \in DOMAIN data THEN <<r>> ELSE << >>,
                     !._video = media("video"),
                     !._provider = media("provider"),
                     !._image = media("image")],
                  IF "fields" \in DOMAIN data
                  THEN (r :> [i \in 1..Len(items) |-> items[i].v]) @@ h ELSE h,
                  TRUE)

(* Colour(value=...) of the document's integer; utils.parse_time of its    *)
(* timestamp; the dataclasses are built from the nested dicts, and the     *)
(* four media dicts are stored as they are.                                *)
from_dict(data, h) ==
    LET plain(k) == dict_get(data, k, EmptyEmbed)
        coerced(k) == IF plain(k) # EmptyEmbed THEN str(plain(k)) ELSE plain(k)
        s0 == Embed_new(coerced("title"), plain("type"), coerced("url"),
                        coerced("description"))
        s1 == [s0 EXCEPT
                 !._colour = IF "color" \in DOMAIN data
                             THEN <<Colour(data["color"])>> ELSE << >>,
                 !._timestamp = IF "timestamp" \in DOMAIN data
                                THEN <<parse_time(data["timestamp"])>> ELSE << >>]
        f == IF "footer" \in DOMAIN data THEN EmbedFooter(data["footer"]) ELSE Ok(<< >>)
        a == IF "author" \in DOMAIN data THEN EmbedAuthor(data["author"]) ELSE Ok(<< >>)
        items == IF "fields" \in DOMAIN data
                 THEN [i \in 1..Len(data["fields"]) |-> EmbedField(data["fields"][i])]
                 ELSE << >>
        r == NewRef(h)
        media(k) == IF k \in DOMAIN data THEN <<data[k]>> ELSE << >>
    IN  IF f.err # "none" THEN Raised(f.err, s1, h)
        ELSE IF a.err # "none" THEN Raised(a.err, s1, h)
        ELSE IF \E i \in 1..Len(items) : items[i].err # "none"
        THEN Raised("TypeError", s1, h)
        ELSE Done([s1 EXCEPT
                     !._footer = IF "footer" \in DOMAIN data THEN <<f.v>> ELSE << >>,
                     !._author = IF "author" \in DOMAIN data THEN <<a.v>> ELSE << >>,
                     !._fields = IF "fields" \in DOMAIN data THEN <<r>> ELSE << >>,
                     !._thumbnail = media("thumbnail"),
                     !._video = media("video"),
                     !._provider = media("provider"),
                     !._image = media("image")],
                  IF "fields" \in DOMAIN data
                  THEN (r :> [i \in 1..Len(items) |-> items[i].v]) @@ h ELSE h,
                  TRUE)

(* Variant: a copy that keeps the attribute values, and so the very list.  *)
copy_shared(self, h) == Done(self, h, FALSE)

copy(self, h) == from_dict(to_dict(self, h), h)

RECURSIVE SumFieldLen(_)
SumFieldLen(l) == IF l = << >> THEN 0 ELSE EmbedField_len(Head(l)) + SumFieldLen(Tail(l))

(* len(embed): the attributes are read through the properties, in the      *)
(* order footer, author, fields.                                           *)
__len__(self, h) ==
    LET f == footer(self)
        a == author(self)
        total == len(self.title) + len(self.description)
    IN  IF f.err # "none" THEN Raise(f.err, 0)
        ELSE IF a.err # "none" THEN Raise(a.err, 0)
        ELSE Ok(total
                + (IF EmbedFooter_len(f.v) # 0 THEN EmbedFooter_len(f.v) ELSE 0)
                + (IF EmbedAuthor_len(a.v) # 0 THEN EmbedAuthor_len(a.v) ELSE 0)
                + SumFieldLen(fields(self, h)))

(* bool(embed): any() of a tuple whose items are all read first.           *)
__bool__(self, h) ==
    LET a == author(self)
        f == footer(self)
    IN  IF a.err # "none" THEN Raise(a.err, FALSE)
        ELSE IF f.err # "none" THEN Raise(f.err, FALSE)
        ELSE Ok(\/ bool(self.title)
                \/ bool(self.url)
                \/ bool(self.description)
                \/ bool(colour(self))
                \/ fields(self, h) # << >>
                \/ bool(timestamp(self))
                \/ EmbedAuthor_len(a.v) # 0
                \/ EmbedProxy_len(thumbnail(self)) # 0
                \/ EmbedFooter_len(f.v) # 0
                \/ EmbedProxy_len(image(self)) # 0
                \/ EmbedProxy_len(provider(self)) # 0
                \/ EmbedProxy_len(video(self)) # 0)

-----------------------------------------------------------------------------
(* The state machine.  emb maps a program variable ("e", and "c" once a    *)
(* copy was taken) to the Embed it holds; heap maps a list reference to    *)
(* the list's items; ret records the last call: the method, the variable   *)
(* it was called on, the exception it raised, whether it returned the      *)
(* instance, and its index argument (0 for a method without one).  view    *)
(* and message belong to the paginators and are empty while the embeds     *)
(* are exercised.                                                          *)

Called(op, on, err, returnsSelf, idx) ==
    [op |-> op, on |-> on, err |-> err, self |-> returnsSelf, idx |-> idx]

(* References are identities only: after a call the lists are renamed so   *)
(* that the list of e is 1 and a list that only c refers to is 2, and      *)
(* lists no embed refers to any more are collected.                        *)
Refs(m) == {m[x]._fields[1] : x \in {y \in DOMAIN m : hasattr(m[y]._fields)}}
Home(x) == IF x = "e" THEN 1 ELSE 2
Owner(m, x) ==
    IF x # "e" /\ hasattr(m["e"]._fields) /\ m["e"]._fields = m[x]._fields
    THEN Home("e")
    ELSE Home(x)
Collect(h, m) ==
    [r \in {Owner(m, x) : x \in {y \in DOMAIN m : hasattr(m[y]._fields)}} |->
        h[CHOOSE q \in Refs(m) :
              \E x \in DOMAIN m :
                  hasattr(m[x]._fields) /\ m[x]._fields[1] = q /\ Owner(m, x) = r]]
Renamed(m) ==
    [x \in DOMAIN m |->
        IF hasattr(m[x]._fields) THEN [m[x] EXCEPT !._fields = <<Owner(m, x)>>]
        ELSE m[x]]

(* After the call on variable t ended as r: the embeds, the heap, and the   *)
(* record of the call.                                                     *)
EmbAfter(t, r) == Renamed([emb EXCEPT ![t] = r.emb])
HeapAfter(t, r) == Collect(r.heap, [emb EXCEPT ![t] = r.emb])
RetAfter(t, op, r, idx) == Called(op, t, r.err, r.self, idx)

Call_colour_setter(t, value) ==
    LET r == colour_setter(emb[t], heap, value)
    IN  /\ emb' = EmbAfter(t, r)
        /\ heap' = HeapAfter(t, r)
        /\ ret' = RetAfter(t, "colour", r, 0)
        /\ UNCHANGED <<view, message>>

Call_timestamp_setter(t, value) ==
    LET r == timestamp_setter(emb[t], heap, value)
    IN  /\ emb' = EmbAfter(t, r)
        /\ heap' = HeapAfter(t, r)
        /\ ret' = RetAfter(t, "timestamp", r, 0)
        /\ UNCHANGED <<view, message>>

Call_footer_setter(t, value) ==
    LET r == footer_setter(emb[t], heap, value)
    IN  /\ emb' = EmbAfter(t, r)
        /\ heap' = HeapAfter(t, r)
        /\ ret' = RetAfter(t, "footer", r, 0)
        /\ UNCHANGED <<view, message>>

Call_author_setter(t, value) ==
    LET r == author_setter(emb[t], heap, value)
    IN  /\ emb' = EmbAfter(t, r)
        /\ heap' = HeapAfter(t, r)
        /\ ret' = RetAfter(t, "author", r, 0)
        /\ UNCHANGED <<view, message>>

Call_fields_setter(t, value) ==
    LET r == fields_setter(emb[t], heap, value)
    IN  /\ emb' = EmbAfter(t, r)
        /\ heap' = HeapAfter(t, r)
        /\ ret' = RetAfter(t, "fields", r, 0)
        /\ UNCHANGED <<view, message>>

Call_set_footer(t, text, icon_url) ==
    LET r == set_footer(emb[t], heap, text, icon_url)
    IN  /\ emb' = EmbAfter(t, r)
        /\ heap' = HeapAfter(t, r)
        /\ ret' = RetAfter(t, "set_footer", r, 0)
        /\ UNCHANGED <<view, message>>

Call_remove_footer(t) ==
    LET r == remove_footer(emb[t], heap)
    IN  /\ emb' = EmbAfter(t, r)
        /\ heap' = HeapAfter(t, r)
        /\ ret' = RetAfter(t, "remove_footer", r, 0)
        /\ UNCHANGED <<view, message>>

Call_set_author(t, name, url, icon_url) ==
    LET r == set_author(emb[t], heap, name, url, icon_url)
    IN  /\ emb' = EmbAfter(t, r)
        /\ heap' = HeapAfter(t, r)
        /\ ret' = RetAfter(t, "set_author", r, 0)
        /\ UNCHANGED <<view, message>>

Call_remove_author(t) ==
    LET r == remove_author(emb[t], heap)
    IN  /\ emb' = EmbAfter(t, r)
        /\ heap' = HeapAfter(t, r)
        /\ ret' = RetAfter(t, "remove_author", r, 0)
        /\ UNCHANGED <<view, message>>

Call_set_image(t, url) ==
    LET r == set_image(emb[t], heap, url)
    IN  /\ emb' = EmbAfter(t, r)
        /\ heap' = HeapAfter(t, r)
        /\ ret' = RetAfter(t, "set_image", r, 0)
        /\ UNCHANGED <<view, message>>

Call_set_thumbnail(t, url) ==
    LET r == set_thumbnail(emb[t], heap, url)
    IN  /\ emb' = EmbAfter(t, r)
        /\ heap' = HeapAfter(t, r)
        /\ ret' = RetAfter(t, "set_thumbnail", r, 0)
        /\ UNCHANGED <<view, message>>

Call_append_field(t, field) ==
    LET r == append_field(emb[t], heap, field)
    IN  /\ emb' = EmbAfter(t, r)
        /\ heap' = HeapAfter(t, r)
        /\ ret' = RetAfter(t, "append_field", r, 0)
        /\ UNCHANGED <<view, message>>

Call_add_field(t, name, value, inline) ==
    LET r == add_field(emb[t], heap, name, value, inline)
    IN  /\ emb' = EmbAfter(t, r)
        /\ heap' = HeapAfter(t, r)
        /\ ret' = RetAfter(t, "add_field", r, 0)
        /\ UNCHANGED <<view, message>>

Call_insert_field_at(t, index, name, value, inline) ==
    LET r == insert_field_at(emb[t], heap, index, name, value, inline)
    IN  /\ emb' = EmbAfter(t, r)
        /\ heap' = HeapAfter(t, r)
        /\ ret' = RetAfter(t, "insert_field_at", r, index)
        /\ UNCHANGED <<view, message>>

Call_remove_field(t, index) ==
    LET r == remove_field(emb[t], heap, index)
    IN  /\ emb' = EmbAfter(t, r)
        /\ heap' = HeapAfter(t, r)
        /\ ret' = RetAfter(t, "remove_field", r, index)
        /\ UNCHANGED <<view, message>>

Call_set_field_at(t, index, name, value, inline) ==
    LET r == set_field_at(emb[t], heap, index, name, value, inline)
    IN  /\ emb' = EmbAfter(t, r)
        /\ heap' = HeapAfter(t, r)
        /\ ret' = RetAfter(t, "set_field_at", r, index)
        /\ UNCHANGED <<view, message>>

Call_clear_fields(t) ==
    LET r == clear_fields(emb[t], heap)
    IN  /\ emb' = EmbAfter(t, r)
        /\ heap' = HeapAfter(t, r)
        /\ ret' = RetAfter(t, "clear_fields", r, 0)
        /\ UNCHANGED <<view, message>>

(* c = e.copy()                                                            *)
Call_copy ==
    LET r == copy(emb["e"], heap)
    IN  /\ r.err = "none"
        /\ emb' = Renamed(("c" :> r.emb) @@ emb)
        /\ heap' = Collect(r.heap, ("c" :> r.emb) @@ emb)
        /\ ret' = Called("copy", "e", "none", FALSE, 0)
        /\ UNCHANGED <<view, message>>

(* An argument the caller leaves out.                                      *)
Omitted == [t |-> "omitted", s |-> "", n |-> 0]
Arg(k, v) == IF v = Omitted THEN << >> ELSE (k :> v)

(* e = Embed(...) with the keyword arguments kw                            *)
Construct(kw) ==
    LET r == __init__(kw, << >>)
    IN  /\ r.err = "none"
        /\ emb = [e |-> r.emb]
        /\ heap = r.heap
        /\ ret = Called("__init__", "e", "none", FALSE, 0)
        /\ view = << >>
        /\ message = << >>

-----------------------------------------------------------------------------
(* Spec: one embed, built by the constructor from every combination of     *)
(* its scalar arguments, then changed by the calls that alter what         *)
(* to_dict, copy, len and bool read.                                       *)

(* The longest field list Spec grows.                                      *)
MaxLen == 2

Titles == {Omitted, PyStr("T")}
Descriptions == {Omitted, PyStr("D")}
Urls == {Omitted, PyStr("u")}
ColourArgs == {Omitted, PyInt(65280)}
ColorArgs == {Omitted, PyInt(255)}
Timestamps == {datetime(600, << >>), datetime(600, <<0 - 120>>)}
FooterTexts == {EmptyEmbed, PyStr("F")}
IconUrls == {EmptyEmbed, PyStr("i")}
AuthorNames == {PyStr("N")}
AuthorUrls == {EmptyEmbed, PyStr("u")}
ImageUrls == {EmptyEmbed, PyStr("p")}
FieldNames == {PyStr("A")}
FieldValues == {PyStr("B")}

Init ==
    \E title \in Titles, description \in Descriptions, url \in Urls,
       colour_ \in ColourArgs, color_ \in ColorArgs,
       timestamp_ \in Timestamps \cup {Omitted} :
        Construct(Arg("title", title) @@ Arg("description", description)
                  @@ Arg("url", url) @@ Arg("colour", colour_)
                  @@ Arg("color", color_) @@ Arg("timestamp", timestamp_))

Next ==
    \/ \E value \in {PyInt(65280), EmptyEmbed} : Call_colour_setter("e", value)
    \/ \E value \in Timestamps \cup {EmptyEmbed} : Call_timestamp_setter("e", value)
    \/ \E text \in FooterTexts, icon_url \in IconUrls : Call_set_footer("e", text, icon_url)
    \/ Call_remove_footer("e")
    \/ \E name \in AuthorNames, url \in AuthorUrls :
           Call_set_author("e", name, url, EmptyEmbed)
    \/ Call_remove_author("e")
    \/ \E url \in ImageUrls : Call_set_image("e", url)
    \/ \E url \in ImageUrls : Call_set_thumbnail("e", url)
    \/ /\ Len(fields(emb["e"], heap)) < MaxLen
       /\ \E name \in FieldNames, value \in FieldValues :
              Call_add_field("e", name, value, TRUE)
    \/ Call_remove_field("e", 0)
    \/ Call_clear_fields("e")

Spec == Init /\ [][Next]_vars

-----------------------------------------------------------------------------
(* What a caller can read from an embed: the plain attributes, the colour  *)
(* and timestamp properties (the timestamp as its UTC reading), the parts  *)
(* of the footer and author, the url of image and thumbnail, the fields.   *)

Instant(ts) == IF ts.t = "datetime" THEN <<ts.wall - ts.tz[1]>> ELSE << >>

Obs(self, h) ==
    [title |-> self.title, description |-> self.description, url |-> self.url,
     type |-> self.type, colour |-> colour(self),
     timestamp |-> Instant(timestamp(self)),
     footer_text |-> footer(self).v.text,
     footer_icon_url |-> footer(self).v.icon_url,
     author_name |-> IF hasattr(self._author) THEN self._author[1].name ELSE EmptyEmbed,
     author_url |-> IF hasattr(self._author) THEN self._author[1].url ELSE EmptyEmbed,
     author_icon_url |-> IF hasattr(self._author) THEN self._author[1].icon_url
                         ELSE EmptyEmbed,
     image_url |-> EmbedProxy_getattr(image(self), "url"),
     thumbnail_url |-> EmbedProxy_getattr(thumbnail(self), "url"),
     fields |-> fields(self, h)]

(* C2: for the embed e of every reachable state, e.copy(), which is        *)
(* from_dict(to_dict(e)), succeeds and has the observable values of e.     *)
C2_RoundTrip ==
    /\ copy(emb["e"], heap).err = "none"
    /\ Obs(copy(emb["e"], heap).emb, copy(emb["e"], heap).heap) = Obs(emb["e"], heap)

(* C3: whenever the colour of e is a Colour of value c, to_dict() has the  *)
(* key "color" with value c and no key "colour".                           *)
C3_ColourKey ==
    colour(emb["e"]).t = "Colour" =>
        /\ "color" \in DOMAIN to_dict(emb["e"], heap)
        /\ to_dict(emb["e"], heap)["color"] = colour(emb["e"]).n
        /\ "colour" \notin DOMAIN to_dict(emb["e"], heap)

(* C4: to_dict() has the key "timestamp" exactly when the timestamp of e   *)
(* is set, and it then holds that instant as an ISO string in UTC.         *)
C4_TimestampKey ==
    /\ ("timestamp" \in DOMAIN to_dict(emb["e"], heap))
           <=> (timestamp(emb["e"]).t = "datetime")
    /\ timestamp(emb["e"]).t = "datetime" =>
           /\ "timestamp" \in DOMAIN to_dict(emb["e"], heap)
           /\ to_dict(emb["e"], heap)["timestamp"]
                  = isoformat(astimezone_utc(timestamp(emb["e"])))

(* The embed of the scenario: Embed(title="T", description="D") after      *)
(* add_field(name="A", value="B") and set_footer(text="F").                *)
C5_Scenario ==
    /\ emb["e"].title = PyStr("T")
    /\ emb["e"].description = PyStr("D")
    /\ emb["e"].url = EmptyEmbed
    /\ colour(emb["e"]) = EmptyEmbed
    /\ timestamp(emb["e"]) = EmptyEmbed
    /\ emb["e"]._footer = <<EmbedFooter("text" :> PyStr("F")).v>>
    /\ ~hasattr(emb["e"]._author)
    /\ ~hasattr(emb["e"]._image)
    /\ ~hasattr(emb["e"]._thumbnail)
    /\ fields(emb["e"], heap)
          = <<[name |-> PyStr("A"), value |-> PyStr("B"), inline |-> TRUE]>>

C5_Document ==
    ("title" :> PyStr("T")) @@ ("description" :> PyStr("D"))
    @@ ("fields" :> <<[name |-> PyStr("A"), value |-> PyStr("B"), inline |-> TRUE]>>)
    @@ ("footer" :> ("text" :> PyStr("F")))

LenSum(self, h) ==
    len(self.title) + len(self.description) + SumFieldLen(fields(self, h))
    + (IF hasattr(self._footer) THEN len(self._footer[1].text) ELSE 0)
    + (IF hasattr(self._author) THEN len(self._author[1].name) ELSE 0)

(* C7: len(e) returns, without raising, the sum of the lengths of title,   *)
(* description, every field's name and value, footer text and author name. *)
C7_LenIsSum ==
    /\ __len__(emb["e"], heap).err = "none"
    /\ __len__(emb["e"], heap).v = LenSum(emb["e"], heap)

(* Every part bool(e) looks at is unset or falsy.                          *)
AllUnset(self, h) ==
    /\ ~bool(self.title) /\ ~bool(self.url) /\ ~bool(self.description)
    /\ ~bool(colour(self)) /\ ~bool(timestamp(self))
    /\ fields(self, h) = << >>
    /\ (hasattr(self._author) => len(self._author[1].name) = 0)
    /\ (hasattr(self._footer) => len(self._footer[1].text) = 0)
    /\ image(self) = << >> /\ thumbnail(self) = << >>
    /\ provider(self) = << >> /\ video(self) = << >>

(* C8: bool(e) returns, without raising, false exactly when every part is  *)
(* unset or falsy.                                                         *)
C8_BoolIsAny ==
    /\ __bool__(emb["e"], heap).err = "none"
    /\ __bool__(emb["e"], heap).v = ~AllUnset(emb["e"], heap)

-----------------------------------------------------------------------------
(* SpecCalls: Embed() followed by every setter and mutator, with inputs    *)
(* each accepts and inputs each rejects.                                   *)

NotAccepted == {PyStr("x")}
Indexes == (0 - (MaxLen + 1))..(MaxLen + 1)

InitCalls == Construct(<< >>)

NextCalls ==
    \/ \E value \in {PyInt(255), EmptyEmbed} \cup NotAccepted :
           Call_colour_setter("e", value)
    \/ \E value \in {datetime(600, << >>), EmptyEmbed} \cup NotAccepted :
           Call_timestamp_setter("e", value)
    \/ \E value \in {EmbedFooter("text" :> PyStr("F")).v, EmptyEmbed} \cup NotAccepted :
           Call_footer_setter("e", value)
    \/ \E value \in {EmbedAuthor("name" :> PyStr("N")).v, EmptyEmbed} \cup NotAccepted :
           Call_author_setter("e", value)
    \/ \E value \in {[t |-> "list", items |-> << >>],
                     [t |-> "list",
                      items |-> <<EmbedField([name |-> PyStr("A"),
                                              value |-> PyStr("B")]).v>>],
                     [t |-> "list", items |-> <<PyStr("x")>>],
                     EmptyEmbed} :
           Call_fields_setter("e", value)
    \/ Call_set_footer("e", PyStr("F"), EmptyEmbed)
    \/ Call_remove_footer("e")
    \/ Call_set_author("e", PyStr("N"), EmptyEmbed, EmptyEmbed)
    \/ Call_remove_author("e")
    \/ \E url \in ImageUrls : Call_set_image("e", url)
    \/ \E url \in ImageUrls : Call_set_thumbnail("e", url)
    \/ /\ Len(fields(emb["e"], heap)) < MaxLen
       /\ Call_append_field("e", EmbedField([name |-> PyStr("A"), value |-> PyStr("B")]).v)
    \/ \E other \in NotAccepted : Call_append_field("e", other)
    \/ /\ Len(fields(emb["e"], heap)) < MaxLen
       /\ \E name \in FieldNames, value \in FieldValues :
              Call_add_field("e", name, value, TRUE)
    \/ /\ Len(fields(emb["e"], heap)) < MaxLen
       /\ \E index \in Indexes, name \in FieldNames, value \in FieldValues :
              Call_insert_field_at("e", index, name, value, TRUE)
    \/ \E index \in Indexes : Call_remove_field("e", index)
    \/ \E index \in Indexes, inline \in BOOLEAN :
           Call_set_field_at("e", index, PyNone, PyNone, inline)
    \/ Call_clear_fields("e")

SpecCalls == InitCalls /\ [][NextCalls]_vars

-----------------------------------------------------------------------------
(* SpecFields: Embed() followed by the calls that change the field list,   *)
(* with distinguishable fields and every index around the list's ends.     *)

NewFieldNames == {PyStr("a"), PyInt(7)}
NewFieldValues == {PyStr("v")}
EditNames == {PyNone, PyStr(""), PyStr("x")}
EditValues == {PyNone, PyInt(5)}

NextFields ==
    \/ /\ Len(fields(emb["e"], heap)) < MaxLen
       /\ \E name \in NewFieldNames, value \in NewFieldValues, inline \in BOOLEAN :
              Call_add_field("e", name, value, inline)
    \/ /\ Len(fields(emb["e"], heap)) < MaxLen
       /\ \E index \in Indexes, name \in NewFieldNames, value \in NewFieldValues :
              Call_insert_field_at("e", index, name, value, TRUE)
    \/ \E index \in Indexes : Call_remove_field("e", index)
    \/ \E index \in Indexes, name \in EditNames, value \in EditValues,
          inline \in BOOLEAN :
           Call_set_field_at("e", index, name, value, inline)
    \/ Call_clear_fields("e")

SpecFields == InitCalls /\ [][NextFields]_vars

-----------------------------------------------------------------------------
(* SpecCopy: Embed(), its mutators, c = e.copy(), and from then on the     *)
(* mutators on either of e and c.                                          *)

(* The longest field list SpecCopy grows.                                  *)
CopyMaxLen == 1

NextCopy ==
    \/ Call_copy
    \/ \E t \in DOMAIN emb :
           /\ Len(fields(emb[t], heap)) < CopyMaxLen
           /\ Call_add_field(t, PyStr("A"), PyStr("B"), TRUE)
    \/ \E t \in DOMAIN emb :
           /\ Len(fields(emb[t], heap)) < CopyMaxLen
           /\ Call_insert_field_at(t, 0, PyStr("A"), PyStr("B"), TRUE)
    \/ \E t \in DOMAIN emb : Call_set_field_at(t, 0, PyNone, PyNone, FALSE)
    \/ \E t \in DOMAIN emb : Call_remove_field(t, 0)
    \/ \E t \in DOMAIN emb : Call_clear_fields(t)
    \/ \E t \in DOMAIN emb : Call_set_footer(t, PyStr("F"), EmptyEmbed)
    \/ \E t \in DOMAIN emb : Call_set_author(t, PyStr("N"), EmptyEmbed, EmptyEmbed)
    \/ \E t \in DOMAIN emb : Call_set_image(t, PyStr("p"))
    \/ \E t \in DOMAIN emb : Call_set_thumbnail(t, PyStr("p"))

SpecCopy == InitCalls /\ [][NextCopy]_vars

-----------------------------------------------------------------------------
(* SpecCap: Embed() followed by the calls that add and remove fields,      *)
(* with one field value, up to two fields beyond the setter's maximum.     *)

TheField == EmbedField([name |-> PyStr("A"), value |-> PyStr("B"), inline |-> TRUE]).v

NextCap ==
    \/ \E k \in {MaxFields, MaxFields + 1} :
           Call_fields_setter("e", [t |-> "list", items |-> [i \in 1..k |-> TheField]])
    \/ /\ Len(fields(emb["e"], heap)) < MaxFields + 2
       /\ Call_append_field("e", TheField)
    \/ /\ Len(fields(emb["e"], heap)) < MaxFields + 2
       /\ Call_add_field("e", PyStr("A"), PyStr("B"), TRUE)
    \/ /\ Len(fields(emb["e"], heap)) < MaxFields + 2
       /\ \E index \in {0, 1} : Call_insert_field_at("e", index, PyStr("A"), PyStr("B"), TRUE)
    \/ \E index \in {0, 1} : Call_set_field_at("e", index, PyStr("A"), PyNone, TRUE)
    \/ \E index \in {0, 1} : Call_remove_field("e", index)
    \/ Call_clear_fields("e")

SpecCap == InitCalls /\ [][NextCap]_vars

-----------------------------------------------------------------------------
(* SpecDict: e = Embed.from_dict(d) for a document d with any subset of    *)
(* the thirteen keys, then set_image and set_thumbnail.                    *)

MediaDict(url) ==
    ("url" :> PyStr(url)) @@ ("proxy_url" :> PyStr("q"))
    @@ ("width" :> PyInt(5)) @@ ("height" :> PyInt(6))

FullDocument ==
    ("title" :> PyStr("T")) @@ ("type" :> PyStr("image"))
    @@ ("description" :> PyStr("D")) @@ ("url" :> PyStr("u"))
    @@ ("color" :> 65280)
    @@ ("timestamp" :> isoformat(datetime(600, <<0>>)))
    @@ ("footer" :> (("text" :> PyStr("F")) @@ ("icon_url" :> PyStr("i"))))
    @@ ("author" :> ("name" :> PyStr("N")))
    @@ ("fields" :> <<[name |-> PyStr("A"), value |-> PyStr("B"), inline |-> FALSE]>>)
    @@ ("image" :> MediaDict("p"))
    @@ ("thumbnail" :> MediaDict("t"))
    @@ ("video" :> ("url" :> PyStr("v")))
    @@ ("provider" :> ("name" :> PyStr("P")))

Document(keys) == [k \in keys |-> FullDocument[k]]

NewImageUrls == {EmptyEmbed, PyStr("p2")}

(* e = Embed.from_dict(data): the record of the call keeps the document.   *)
FromDict(data) ==
    LET r == from_dict(data, << >>)
    IN  /\ r.err = "none"
        /\ emb = [e |-> r.emb]
        /\ heap = r.heap
        /\ ret = ("doc" :> data) @@ Called("from_dict", "e", "none", FALSE, 0)
        /\ view = << >>
        /\ message = << >>

InitDict == \E keys \in SUBSET DOMAIN FullDocument : FromDict(Document(keys))

NextDict ==
    \/ \E url \in NewImageUrls : Call_set_image("e", url)
    \/ \E url \in NewImageUrls : Call_set_thumbnail("e", url)

SpecDict == InitDict /\ [][NextDict]_vars

-----------------------------------------------------------------------------
(* Claims about the field list, copies and return values.                  *)

(* C1: the number of fields is at most 25 in every reachable state, under  *)
(* the fields setter, append_field, add_field, insert_field_at,            *)
(* set_field_at, remove_field and clear_fields.                            *)
C1_AtMost25Fields == Len(fields(emb["e"], heap)) <= MaxFields

(* The field list of e before and after the step.                          *)
FieldsBefore == fields(emb["e"], heap)
FieldsAfter == fields(emb'["e"], heap')

(* C6 as stated: remove_field with a negative index, or an index at or     *)
(* past the number of fields, leaves the field list unchanged and raises   *)
(* no error.                                                               *)
C6_NegativeOrPastEnd ==
    [][ret'.op = "remove_field" /\ (ret'.idx < 0 \/ ret'.idx >= Len(FieldsBefore))
           => ret'.err = "none" /\ FieldsAfter = FieldsBefore]_vars

(* C6: remove_field never raises; with n fields, an index i >= n or        *)
(* i < -n leaves the field list unchanged, and an index -n <= i < 0        *)
(* removes the field at position n + i, keeping the others in order.       *)
C6_OutOfRangeIgnored ==
    [][ret'.op = "remove_field"
           => LET n == Len(FieldsBefore)
                  i == ret'.idx
              IN  /\ ret'.err = "none"
                  /\ (i >= n \/ i < 0 - n) => FieldsAfter = FieldsBefore
                  /\ (0 - n <= i /\ i < 0) =>
                         FieldsAfter = [k \in 1..(n - 1) |->
                                            IF k < n + i + 1 THEN FieldsBefore[k]
                                                             ELSE FieldsBefore[k + 1]]]_vars

C6_Witness ==
    /\ ret.op = "remove_field"
    /\ ret.err = "none"
    /\ Len(fields(emb["e"], heap)) > 0
    /\ \/ ret.idx >= Len(fields(emb["e"], heap))
       \/ ret.idx < 0 - Len(fields(emb["e"], heap))

C9_Mutators ==
    {"add_field", "insert_field_at", "set_field_at", "remove_field", "clear_fields",
     "set_footer", "set_author", "set_image", "set_thumbnail"}

C10_Mutators ==
    {"set_footer", "remove_footer", "set_author", "remove_author", "set_image",
     "set_thumbnail", "append_field", "add_field", "insert_field_at", "set_field_at",
     "remove_field", "clear_fields"}

(* C10 as stated: every mutator returns the instance it was called on.     *)
C10_AllReturnSelf ==
    ret.op \in C10_Mutators /\ ret.err = "none" => ret.self

(* C10: set_footer, remove_footer, set_author, remove_author, set_image,   *)
(* set_thumbnail, append_field, add_field, insert_field_at and             *)
(* set_field_at return the instance they were called on; remove_field and  *)
(* clear_fields return None.                                               *)
C10_ChainingMutators ==
    ret.op \in C10_Mutators /\ ret.err = "none"
        => (ret.self <=> ret.op \notin {"remove_field", "clear_fields"})

C10_Witness ==
    /\ ret.op = "set_field_at"
    /\ ret.err = "none"
    /\ ret.self
    /\ Len(fields(emb["e"], heap)) = MaxLen

-----------------------------------------------------------------------------
(* Claims about the fields setter.                                          *)

(* A list of k distinguishable field records, as assigned to e.fields.     *)
NumberedFields(k) ==
    [t |-> "list",
     items |-> [i \in 1..k |->
                   EmbedField([name |-> str(PyInt(i)), value |-> PyStr("B"),
                               inline |-> TRUE]).v]]

(* C11: in every reachable state, assigning e.fields a list of 25 field    *)
(* records (or fewer) succeeds and stores them in order; assigning 26 or   *)
(* more raises ValueError and leaves the stored fields unchanged.          *)
C11_SetterCap ==
    /\ \A k \in {1, MaxFields - 1, MaxFields} :
           LET r == fields_setter(emb["e"], heap, NumberedFields(k))
           IN  /\ r.err = "none"
               /\ fields(r.emb, r.heap) = NumberedFields(k).items
    /\ \A k \in {MaxFields + 1, MaxFields + 2} :
           LET r == fields_setter(emb["e"], heap, NumberedFields(k))
           IN  /\ r.err = "ValueError"
               /\ fields(r.emb, r.heap) = fields(emb["e"], heap)
               /\ r.emb = emb["e"]

C11_Witness ==
    /\ ret.op = "fields"
    /\ ret.err = "ValueError"
    /\ Len(fields(emb["e"], heap)) = MaxFields


(* Lists with an element that is not a field record: alone, after and      *)
(* before field records, and as the last of 26 elements.                   *)
ListsWithNonField ==
    {[t |-> "list", items |-> <<PyStr("x")>>],
     [t |-> "list", items |-> <<TheField, PyStr("x")>>],
     [t |-> "list", items |-> <<PyNone, TheField>>],
     [t |-> "list", items |-> [i \in 1..(MaxFields + 1) |->
                                  IF i = MaxFields + 1 THEN PyStr("x") ELSE TheField]]}

(* C12: in every reachable state, assigning e.fields a list with an        *)
(* element that is not a field record raises TypeError, whatever the       *)
(* list's length, and leaves the stored fields unchanged.                  *)
C12_SetterTypeError ==
    \A value \in ListsWithNonField :
        LET r == fields_setter(emb["e"], heap, value)
        IN  /\ r.err = "TypeError"
            /\ fields(r.emb, r.heap) = fields(emb["e"], heap)
            /\ r.emb = emb["e"]

C12_Witness ==
    /\ ret.op = "fields"
    /\ ret.err = "TypeError"
    /\ Len(fields(emb["e"], heap)) = MaxLen


-----------------------------------------------------------------------------
(* Claims about set_field_at, remove_field and insert_field_at.            *)

(* C13: set_field_at(index, ...) raises IndexError whenever no field       *)
(* exists at index (with n fields: index >= n or index < -n, and any       *)
(* index on an embed that never had fields), and then changes nothing.     *)
C13_SetFieldAtIndexError ==
    [][ret'.op = "set_field_at"
           /\ (ret'.idx >= Len(FieldsBefore) \/ ret'.idx < 0 - Len(FieldsBefore))
           => /\ ret'.err = "IndexError"
              /\ FieldsAfter = FieldsBefore
              /\ emb' = emb
              /\ heap' = heap]_vars

C13_Witness ==
    /\ ret.op = "set_field_at"
    /\ ret.err = "IndexError"
    /\ ret.idx = MaxLen
    /\ Len(fields(emb["e"], heap)) = MaxLen


(* Arguments of set_field_at: omitted (None), falsy, and truthy.           *)
C14_Args == {PyNone, PyStr(""), PyInt(0), PyStr("x"), PyInt(5)}

(* C14: in every reachable state, set_field_at on an existing field        *)
(* succeeds, keeps the field's name when name is omitted or falsy and its  *)
(* value when value is omitted or falsy, replaces each by the string form  *)
(* of the argument otherwise, and leaves the other fields and the count    *)
(* unchanged.                                                              *)
C14_SetFieldAtKeeps ==
    \A index \in Indexes, name \in C14_Args, value \in C14_Args, inline \in BOOLEAN :
        LET old == fields(emb["e"], heap)
            n == Len(old)
            i == IF index < 0 THEN n + index + 1 ELSE index + 1
            r == set_field_at(emb["e"], heap, index, name, value, inline)
            new == fields(r.emb, r.heap)
        IN  (0 - n <= index /\ index < n) =>
                /\ r.err = "none"
                /\ Len(new) = n
                /\ \A k \in (1..n) \ {i} : new[k] = old[k]
                /\ new[i].name = (IF name \in {PyNone, PyStr(""), PyInt(0)}
                                  THEN old[i].name
                                  ELSE IF name = PyInt(5) THEN PyStr("5") ELSE name)
                /\ new[i].value = (IF value \in {PyNone, PyStr(""), PyInt(0)}
                                   THEN old[i].value
                                   ELSE IF value = PyInt(5) THEN PyStr("5") ELSE value)

C14_Witness ==
    /\ ret.op = "set_field_at"
    /\ ret.err = "none"
    /\ ret.idx = 0 - 1
    /\ Len(fields(emb["e"], heap)) = MaxLen
    /\ fields(emb["e"], heap)[MaxLen].name = PyStr("x")
    /\ fields(emb["e"], heap)[MaxLen].value = PyStr("v")
    /\ fields(emb["e"], heap)[1].name = PyStr("7")


(* C15: remove_field(index) with 0 <= index < n removes exactly the field  *)
(* at that position: the count drops by one, the fields before index keep  *)
(* their position and the fields after it move down by one, unchanged.     *)
C15_RemoveShifts ==
    [][ret'.op = "remove_field" /\ 0 <= ret'.idx /\ ret'.idx < Len(FieldsBefore)
           => /\ ret'.err = "none"
              /\ Len(FieldsAfter) = Len(FieldsBefore) - 1
              /\ \A k \in 1..ret'.idx : FieldsAfter[k] = FieldsBefore[k]
              /\ \A k \in (ret'.idx + 1)..Len(FieldsAfter) :
                     FieldsAfter[k] = FieldsBefore[k + 1]]_vars

C15_Witness ==
    /\ ret.op = "remove_field"
    /\ ret.err = "none"
    /\ ret.idx = 0
    /\ Len(fields(emb["e"], heap)) = MaxLen - 1
    /\ fields(emb["e"], heap)[1].name = PyStr("x")


-----------------------------------------------------------------------------
(* Claims about set_footer, set_image and set_thumbnail.                   *)

(* What set_footer stores for an argument: unset when omitted, else the    *)
(* argument's string form.                                                 *)
C16_Stored(arg) == IF arg = EmptyEmbed THEN EmptyEmbed ELSE str(arg)

(* C16: in every reachable state, whatever footer the embed has,           *)
(* set_footer(text, icon_url) succeeds and the footer then reads exactly   *)
(* the arguments given: a part omitted is unset, not kept from the         *)
(* previous footer; set_footer() leaves both parts unset.                  *)
C16_FooterReplaced ==
    \A text \in FooterTexts \cup {PyInt(5)}, icon_url \in IconUrls :
        LET r == set_footer(emb["e"], heap, text, icon_url)
        IN  /\ r.err = "none"
            /\ footer(r.emb).v.text = C16_Stored(text)
            /\ footer(r.emb).v.icon_url = C16_Stored(icon_url)
            /\ footer(r.emb).v.proxy_icon_url = EmptyEmbed

C16_Witness ==
    /\ ret.op = "set_footer"
    /\ ret.err = "none"
    /\ footer(emb["e"]).v.text = EmptyEmbed
    /\ footer(emb["e"]).v.icon_url = PyStr("i")


(* The attributes a caller reads from e.image or e.thumbnail.              *)
MediaAttrs == {"url", "proxy_url", "width", "height"}

(* What set_image / set_thumbnail leave readable: nothing for the empty    *)
(* sentinel, else the url alone.                                           *)
C17_Readable(layer, url) ==
    /\ EmbedProxy_getattr(layer, "url") = (IF url = EmptyEmbed THEN EmptyEmbed ELSE str(url))
    /\ \A a \in MediaAttrs \ {"url"} : EmbedProxy_getattr(layer, a) = EmptyEmbed
    /\ EmbedProxy_len(layer) = (IF url = EmptyEmbed THEN 0 ELSE 1)

(* C17: in every reachable state, set_image and set_thumbnail succeed;     *)
(* with the empty sentinel the sub-record then reads as unset (also when   *)
(* it was unset before), with a value it reads as that url alone, without  *)
(* the width, height and proxy_url from_dict had stored; the other         *)
(* sub-record is untouched.                                                *)
C17_MediaReplaced ==
    \A url \in NewImageUrls \cup {PyInt(5)} :
        LET i == set_image(emb["e"], heap, url)
            t == set_thumbnail(emb["e"], heap, url)
        IN  /\ i.err = "none"
            /\ C17_Readable(image(i.emb), url)
            /\ thumbnail(i.emb) = thumbnail(emb["e"])
            /\ i.emb._thumbnail = emb["e"]._thumbnail
            /\ t.err = "none"
            /\ C17_Readable(thumbnail(t.emb), url)
            /\ image(t.emb) = image(emb["e"])
            /\ t.emb._image = emb["e"]._image

C17_Witness ==
    /\ ret.op = "set_image"
    /\ ret.err = "none"
    /\ image(emb["e"]) = ("url" :> PyStr("p2"))
    /\ EmbedProxy_getattr(thumbnail(emb["e"]), "width") = PyInt(5)


(* The value from_dict stores for a plain key: the document's, as a str    *)
(* for title, description and url.                                         *)
C18_Plain(doc, k) == IF k \in DOMAIN doc THEN doc[k] ELSE EmptyEmbed

(* C18: after e = Embed.from_dict(doc), for a document with any subset of  *)
(* the thirteen keys, each attribute is set, to the document's value,      *)
(* exactly when its key is in the document, and is unset otherwise; type   *)
(* is not defaulted.                                                       *)
C18_FromDictSubsets ==
    ret.op = "from_dict" =>
        LET doc == ret.doc
            e == emb["e"]
            has(k) == k \in DOMAIN doc
        IN  /\ e.title = C18_Plain(doc, "title")
            /\ e.type = C18_Plain(doc, "type")
            /\ e.description = C18_Plain(doc, "description")
            /\ e.url = C18_Plain(doc, "url")
            /\ hasattr(e._colour) <=> has("color")
            /\ colour(e) = (IF has("color") THEN Colour(65280) ELSE EmptyEmbed)
            /\ hasattr(e._timestamp) <=> has("timestamp")
            /\ timestamp(e) = (IF has("timestamp") THEN datetime(600, <<0>>)
                               ELSE EmptyEmbed)
            /\ hasattr(e._footer) <=> has("footer")
            /\ footer(e).v.text = (IF has("footer") THEN PyStr("F") ELSE EmptyEmbed)
            /\ footer(e).v.icon_url = (IF has("footer") THEN PyStr("i") ELSE EmptyEmbed)
            /\ hasattr(e._author) <=> has("author")
            /\ has("author") => e._author[1].name = PyStr("N")
            /\ hasattr(e._fields) <=> has("fields")
            /\ fields(e, heap) = (IF has("fields") THEN doc["fields"] ELSE << >>)
            /\ hasattr(e._image) <=> has("image")
            /\ image(e) = (IF has("image") THEN doc["image"] ELSE << >>)
            /\ hasattr(e._thumbnail) <=> has("thumbnail")
            /\ thumbnail(e) = (IF has("thumbnail") THEN doc["thumbnail"] ELSE << >>)
            /\ hasattr(e._video) <=> has("video")
            /\ video(e) = (IF has("video") THEN doc["video"] ELSE << >>)
            /\ hasattr(e._provider) <=> has("provider")
            /\ provider(e) = (IF has("provider") THEN doc["provider"] ELSE << >>)

C18_Witness ==
    /\ ret.op = "from_dict"
    /\ DOMAIN ret.doc = {"description", "color", "author", "thumbnail"}
    /\ emb["e"].type = EmptyEmbed
    /\ emb["e"].description = PyStr("D")


(* C19: in every reachable state with n fields, insert_field_at(index,     *)
(* ...) succeeds for every index and the count grows by one; for           *)
(* 0 <= index <= n the new field is at position index, for index > n it    *)
(* is last, with no fields it is the only field whatever the index; the    *)
(* fields already there keep their order and contents.                     *)
C19_InsertClamps ==
    \A index \in Indexes, name \in NewFieldNames \cup {PyStr("x")}, inline \in BOOLEAN :
        LET old == fields(emb["e"], heap)
            n == Len(old)
            r == insert_field_at(emb["e"], heap, index, name, PyStr("w"), inline)
            new == fields(r.emb, r.heap)
            added == [name |-> str(name), value |-> PyStr("w"), inline |-> inline]
            without(p) == [k \in 1..n |-> IF k < p THEN new[k] ELSE new[k + 1]]
        IN  /\ r.err = "none"
            /\ Len(new) = n + 1
            /\ \E p \in 1..(n + 1) : new[p] = added /\ without(p) = old
            /\ (0 <= index /\ index <= n) =>
                   new[index + 1] = added /\ without(index + 1) = old
            /\ index > n => new[n + 1] = added /\ without(n + 1) = old
            /\ n = 0 => new = <<added>>

C19_Witness ==
    /\ ret.op = "insert_field_at"
    /\ ret.err = "none"
    /\ ret.idx = MaxLen + 1
    /\ Len(fields(emb["e"], heap)) = MaxLen
    /\ ~fields(emb["e"], heap)[1].inline
    /\ fields(emb["e"], heap)[MaxLen].inline
    /\ fields(emb["e"], heap)[MaxLen].name = PyStr("7")


-----------------------------------------------------------------------------
(* Claims about the colour property.                                       *)

C20_Ints == {PyInt(0), PyInt(255)}
C20_Colours == {Colour(7)}
C20_Others == {PyStr("x"), PyNone, datetime(600, <<0>>)}

(* What assigning an accepted value, or a rejected one, does through the   *)
(* setter of either name.                                                  *)
C20_Stores(r, stored) ==
    r.err = "none" /\ colour(r.emb) = stored /\ color(r.emb) = stored
C20_Rejects(r) ==
    r.err = "TypeError" /\ r.emb = emb["e"] /\ colour(r.emb) = colour(emb["e"])

(* C20 as stated: an integer is stored as a colour of that value, the      *)
(* empty sentinel makes colour unset, every other kind of value raises     *)
(* TypeError and changes nothing; color reads as colour.                   *)
C20_OnlyIntOrEmpty ==
    /\ color(emb["e"]) = colour(emb["e"])
    /\ \A v \in C20_Ints :
           /\ C20_Stores(colour_setter(emb["e"], heap, v), Colour(v.n))
           /\ C20_Stores(color_setter(emb["e"], heap, v), Colour(v.n))
    /\ C20_Stores(colour_setter(emb["e"], heap, EmptyEmbed), EmptyEmbed)
    /\ C20_Stores(color_setter(emb["e"], heap, EmptyEmbed), EmptyEmbed)
    /\ \A v \in C20_Others \cup C20_Colours :
           /\ C20_Rejects(colour_setter(emb["e"], heap, v))
           /\ C20_Rejects(color_setter(emb["e"], heap, v))

(* C20: an integer is stored as a colour of that value, a Colour is        *)
(* stored as it is, the empty sentinel makes colour unset, every other     *)
(* kind of value raises TypeError and changes nothing; color reads as      *)
(* colour.                                                                 *)
C20_ColourSetter ==
    /\ color(emb["e"]) = colour(emb["e"])
    /\ \A v \in C20_Ints :
           /\ C20_Stores(colour_setter(emb["e"], heap, v), Colour(v.n))
           /\ C20_Stores(color_setter(emb["e"], heap, v), Colour(v.n))
    /\ \A v \in C20_Colours :
           /\ C20_Stores(colour_setter(emb["e"], heap, v), v)
           /\ C20_Stores(color_setter(emb["e"], heap, v), v)
    /\ C20_Stores(colour_setter(emb["e"], heap, EmptyEmbed), EmptyEmbed)
    /\ C20_Stores(color_setter(emb["e"], heap, EmptyEmbed), EmptyEmbed)
    /\ \A v \in C20_Others :
           /\ C20_Rejects(colour_setter(emb["e"], heap, v))
           /\ C20_Rejects(color_setter(emb["e"], heap, v))

C20_Witness ==
    /\ ret.op = "colour"
    /\ ret.err = "TypeError"
    /\ colour(emb["e"]) = Colour(255)

-----------------------------------------------------------------------------
(* SpecPlain: one embed built from every combination of title, type, url   *)
(* and description, each left out, empty, a string or the integer 0, and   *)
(* then changed by plain attribute assignments (e.title = value).          *)

PlainAttrs == {"title", "type", "url", "description"}
PlainValues == {EmptyEmbed, PyStr(""), PyStr("T"), PyInt(0)}

(* setattr(e, attr, value) on one of the four slots that have no property. *)
Assign(t, attr, value) ==
    /\ emb' = [emb EXCEPT ![t][attr] = value]
    /\ heap' = heap
    /\ ret' = Called(attr, t, "none", FALSE, 0)
    /\ UNCHANGED <<view, message>>

InitPlain ==
    \E title \in PlainValues \cup {Omitted}, type \in PlainValues \cup {Omitted},
       url \in PlainValues \cup {Omitted},
       description \in PlainValues \cup {Omitted} :
        Construct(Arg("title", title) @@ Arg("type", type) @@ Arg("url", url)
                  @@ Arg("description", description))

NextPlain == \E attr \in PlainAttrs, value \in PlainValues : Assign("e", attr, value)

SpecPlain == InitPlain /\ [][NextPlain]_vars

(* C21: in every state, to_dict() of e has each of the keys type,          *)
(* description, url and title exactly when the attribute's current value   *)
(* is truthy, and then with that value; in particular an attribute that    *)
(* holds the empty string has no key, like one that holds Empty.           *)
C21_ScalarKeysWhenTruthy ==
    \A k \in PlainAttrs :
        /\ (k \in DOMAIN to_dict(emb["e"], heap)) <=> bool(emb["e"][k])
        /\ bool(emb["e"][k]) => to_dict(emb["e"], heap)[k] = emb["e"][k]
        /\ emb["e"][k] \in {PyStr(""), EmptyEmbed}
               => k \notin DOMAIN to_dict(emb["e"], heap)

(* The title was set to the empty string by assignment while the type is   *)
(* a non-empty string and the url is unset: only type is serialised.       *)
C21_Witness ==
    /\ ret.op = "title"
    /\ emb["e"].title = PyStr("")
    /\ emb["e"].url = EmptyEmbed
    /\ emb["e"].type = PyStr("rich")
    /\ emb["e"].description = PyStr("T")
    /\ DOMAIN to_dict(emb["e"], heap) = {"type", "description"}

-----------------------------------------------------------------------------
(* The parts of a footer or author that are set: those that are not Empty, *)
(* the response-only proxy_icon_url aside.                                 *)
SetParts(record, parts) ==
    [k \in {p \in parts : record[p] # EmptyEmbed} |-> record[k]]

(* C22: whenever the footer of e has its text or its icon_url set,         *)
(* to_dict() has a footer key holding exactly the set parts; whenever e    *)
(* has an author, to_dict() has an author key holding exactly its set      *)
(* parts.                                                                  *)
C22_FooterAuthorKeys ==
    /\ (hasattr(emb["e"]._footer)
        /\ SetParts(emb["e"]._footer[1], {"text", "icon_url"}) # << >>)
           => /\ "footer" \in DOMAIN to_dict(emb["e"], heap)
              /\ to_dict(emb["e"], heap)["footer"]
                     = SetParts(emb["e"]._footer[1], {"text", "icon_url"})
    /\ hasattr(emb["e"]._author)
           => /\ "author" \in DOMAIN to_dict(emb["e"], heap)
              /\ to_dict(emb["e"], heap)["author"]
                     = SetParts(emb["e"]._author[1], {"name", "url", "icon_url"})

-----------------------------------------------------------------------------
(* set_field_at without an inline argument: the parameter takes its        *)
(* default, True.                                                          *)

(* C23 as stated: set_field_at with only name and/or value, on an existing *)
(* field, leaves that field's inline flag as it was.                       *)
C23_InlineUnchanged ==
    \A index \in Indexes, name \in {PyNone, PyStr("x")}, value \in {PyNone, PyInt(5)} :
        LET old == fields(emb["e"], heap)
            i == list_index(old, index) + 1
            r == set_field_at(emb["e"], heap, index, name, value, TRUE)
        IN  list_has(old, index) /\ (name # PyNone \/ value # PyNone)
                => fields(r.emb, r.heap)[i].inline = old[i].inline

(* C23, amended: set_field_at with only name and/or value, on an existing  *)
(* field, leaves that field's inline flag true: a flag that was true stays *)
(* true and one that was false becomes true; the flags of the other fields *)
(* are unchanged.                                                          *)
C23_InlineDefaultsTrue ==
    \A index \in Indexes, name \in {PyNone, PyStr("x")}, value \in {PyNone, PyInt(5)} :
        LET old == fields(emb["e"], heap)
            i == list_index(old, index) + 1
            r == set_field_at(emb["e"], heap, index, name, value, TRUE)
        IN  list_has(old, index) /\ (name # PyNone \/ value # PyNone)
                => /\ r.err = "none"
                   /\ fields(r.emb, r.heap)[i].inline = TRUE
                   /\ \A k \in (1..Len(old)) \ {i} :
                          fields(r.emb, r.heap)[k].inline = old[k].inline

(* A field added with inline=False comes first, a field with inline=True   *)
(* second; set_field_at(0, name="x") turns the first flag to true.         *)
C23_Witness ==
    /\ Len(fields(emb["e"], heap)) = 2
    /\ fields(emb["e"], heap)[1].inline = FALSE
    /\ fields(emb["e"], heap)[2].inline = TRUE
    /\ fields(set_field_at(emb["e"], heap, 0, PyStr("x"), PyNone, TRUE).emb,
              set_field_at(emb["e"], heap, 0, PyStr("x"), PyNone, TRUE).heap)[1]
           = [name |-> PyStr("x"), value |-> PyStr("v"), inline |-> TRUE]

-----------------------------------------------------------------------------
(* C24: in every reachable state, assigning Empty to the footer property   *)
(* and to the author property of e does not raise and leaves e without     *)
(* that sub-record, whether or not one was set, as remove_footer and       *)
(* remove_author do.                                                       *)
C24_EmptyClears ==
    /\ footer_setter(emb["e"], heap, EmptyEmbed).err = "none"
    /\ ~hasattr(footer_setter(emb["e"], heap, EmptyEmbed).emb._footer)
    /\ footer_setter(emb["e"], heap, EmptyEmbed).emb
           = remove_footer(emb["e"], heap).emb
    /\ author_setter(emb["e"], heap, EmptyEmbed).err = "none"
    /\ ~hasattr(author_setter(emb["e"], heap, EmptyEmbed).emb._author)
    /\ author_setter(emb["e"], heap, EmptyEmbed).emb
           = remove_author(emb["e"], heap).emb

-----------------------------------------------------------------------------
(* C25: for the embed e of every reachable state, e.copy() succeeds and    *)
(* e.copy().to_dict() equals e.to_dict().                                  *)
C25_CopySerialisesAlike ==
    /\ copy(emb["e"], heap).err = "none"
    /\ to_dict(copy(emb["e"], heap).emb, copy(emb["e"], heap).heap)
           = to_dict(emb["e"], heap)

(* An embed with a title, a footer, an author, an image, a thumbnail and   *)
(* two fields, all of which its document and that of its copy carry.       *)
C25_Witness ==
    /\ {"title", "type", "footer", "author", "image", "thumbnail", "fields"}
           \subseteq DOMAIN to_dict(copy(emb["e"], heap).emb, copy(emb["e"], heap).heap)
    /\ Len(to_dict(emb["e"], heap)["fields"]) = 2
    /\ to_dict(emb["e"], heap)["footer"] = ("text" :> PyStr("F")) @@ ("icon_url" :> PyStr("i"))
    /\ to_dict(emb["e"], heap)["thumbnail"] = ("url" :> PyStr("p"))

-----------------------------------------------------------------------------
(* The paginator views of examples/views.  view is the Paginator object:   *)
(* kind names the script it comes from ("paginator" for paginator.py,      *)
(* "advanced" for paginators/advanced.py, "basic" for basic_paginator.py), *)
(* max_pages is len(pages), disabled maps each default button to its       *)
(* disabled flag, children lists the buttons added to the view, stopped    *)
(* says whether View.stop() was called or the view timed out.  author_id   *)
(* and ctx are << >> for None; a ctx holds the author's id and the bot's   *)
(* owner_id (<< >> for None) and owner_ids.                                *)

(* The keys of DEFAULT_BUTTONS in the order of the dict literal; the       *)
(* position passed to each button is its index in that literal.            *)
DEFAULT_BUTTONS(kind) ==
    CASE kind = "paginator" -> <<"first", "left", "page", "stop", "right", "last">>
      [] kind = "advanced" -> <<"first", "left", "stop", "right", "last">>
      [] OTHER -> <<"left", "right">>

position(kind, name) ==
    (CHOOSE i \in 1..Len(DEFAULT_BUTTONS(kind)) : DEFAULT_BUTTONS(kind)[i] = name) - 1

(* __init__ up to the call that adds the buttons: a Button is enabled      *)
(* unless told otherwise.                                                  *)
Paginator_init(kind, pages, author_id, ctx, disable_after, delete_message_after, clear_after) ==
    [kind |-> kind, max_pages |-> pages, current_page |-> 0,
     author_id |-> author_id, ctx |-> ctx,
     _disable_after |-> disable_after,
     _delete_message_after |-> delete_message_after,
     _clear_after |-> clear_after,
     disabled |-> [i \in 1..Len(DEFAULT_BUTTONS(kind)) |-> FALSE],
     children |-> << >>, stopped |-> FALSE]

(* The flag of a button, and the view with that flag set.                  *)
disabled(v, name) == v.disabled[position(v.kind, name) + 1]
disable(v, name, flag) == [v EXCEPT !.disabled[position(v.kind, name) + 1] = flag]

(* One turn of the loop of _add_buttons (paginator.py) and of add_buttons  *)
(* (advanced.py, which has no page button): first and last are left out of *)
(* the view when there are at most two pages.                              *)
_add_buttons_item(v, name) ==
    IF name \in {"first", "last"} /\ v.max_pages <= 2 THEN v
    ELSE [disable(v, name,
                  \/ name = "page"
                  \/ name \in {"first", "left"} /\ v.current_page <= 0
                  \/ name \in {"last", "right"} /\ v.current_page >= v.max_pages - 1)
              EXCEPT !.children = Append(@, name)]

(* One turn of the loop of add_buttons (basic_paginator.py): the else of   *)
(* each of the two tests enables the button again.                         *)
basic_add_buttons_item(v, name) ==
    [disable(v, name,
             IF name = "right"
             THEN (IF v.current_page >= v.max_pages - 1 THEN TRUE
                   ELSE (IF name = "left"
                         THEN (IF v.current_page <= 0 THEN TRUE ELSE disabled(v, name))
                         ELSE FALSE))
             ELSE FALSE)
         EXCEPT !.children = Append(@, name)]

RECURSIVE add_buttons_loop(_, _)
add_buttons_loop(v, names) ==
    IF names = << >> THEN v
    ELSE add_buttons_loop(IF v.kind = "basic"
                          THEN basic_add_buttons_item(v, Head(names))
                          ELSE _add_buttons_item(v, Head(names)),
                          Tail(names))

(* for button in self.children: children.insert(position,                  *)
(* children.pop(children.index(button))).  The loop walks the list it      *)
(* changes: turn i takes whatever stands at index i by then.               *)
RECURSIVE _set_button_positions(_, _, _)
_set_button_positions(kind, children, i) ==
    IF i > Len(children) THEN children
    ELSE _set_button_positions(
             kind,
             list_insert(list_del(children, i - 1),
                         position(kind, children[i]), children[i]),
             i + 1)

(* paginator.py and advanced.py stop the view at once when there is at     *)
(* most one page; basic_paginator.py adds its two buttons in every case    *)
(* and gives them no position.                                             *)
_add_buttons(v) ==
    IF v.kind = "basic" THEN add_buttons_loop(v, DEFAULT_BUTTONS(v.kind))
    ELSE IF v.max_pages <= 1 THEN [v EXCEPT !.stopped = TRUE]
    ELSE [add_buttons_loop(v, DEFAULT_BUTTONS(v.kind)) EXCEPT
             !.children = _set_button_positions(v.kind, @, 1)]

Paginator(kind, pages, author_id, ctx, disable_after, delete_message_after, clear_after) ==
    _add_buttons(Paginator_init(kind, pages, author_id, ctx, disable_after,
                                delete_message_after, clear_after))


(* The message the view is shown in: shown holds the buttons a user can    *)
(* press in the message as last rendered, has_view whether it carries      *)
(* components at all, requests the HTTP requests issued and not yet        *)
(* applied, oldest first.  An edit names the view it passes: "self" with   *)
(* the buttons enabled at the time of the call, "None", or "unchanged"     *)
(* when the edit has no view argument.                                     *)
Components(v) == {v.children[i] : i \in {j \in 1..Len(v.children) : ~disabled(v, v.children[j])}}

edit(m, passed, v) ==
    [m EXCEPT !.requests = Append(@, [op |-> "edit", view |-> passed,
                                      enabled |-> IF passed = "self" THEN Components(v)
                                                  ELSE {}])]

delete(m) == [m EXCEPT !.requests = Append(@, [op |-> "delete", view |-> "unchanged",
                                               enabled |-> {}])]

(* send: the first page goes out with view=self.                           *)
send(v) == [shown |-> Components(v), has_view |-> TRUE, deleted |-> FALSE,
            requests |-> << >>]

(* The outcome of a coroutine: the view, the message and the exception.    *)
Awaited(v, m, err) == [view |-> v, message |-> m, err |-> err]

(* self.pages[page] raises IndexError unless -len <= page < len.           *)
get_page_kwargs(v, page) ==
    IF list_has([i \in 1..v.max_pages |-> i], page) THEN Ok("self")
    ELSE Raise("IndexError", "unchanged")

(* advanced.py and basic_paginator.py: no keywords at all for a page       *)
(* below 0 or past the last one.                                           *)
handle_page_content(v) ==
    IF v.current_page < 0 \/ v.current_page >= v.max_pages THEN "unchanged" ELSE "self"

(* for item in self.children: item.disabled = True                         *)
disable_children(v) ==
    [v EXCEPT !.disabled = [i \in DOMAIN @ |->
                               \/ @[i]
                               \/ \E j \in 1..Len(v.children) :
                                      position(v.kind, v.children[j]) + 1 = i]]

(* Variant: the buttons are disabled first, whatever else is asked for.    *)
stop_disabling_first(v, m) ==
    IF v._disable_after
    THEN Awaited([disable_children(v) EXCEPT !.stopped = TRUE],
                 edit(m, "self", disable_children(v)), "none")
    ELSE IF v._delete_message_after
    THEN Awaited([v EXCEPT !.stopped = TRUE], delete(m), "none")
    ELSE IF v._clear_after
    THEN Awaited([v EXCEPT !.stopped = TRUE], edit(m, "None", v), "none")
    ELSE Awaited([v EXCEPT !.stopped = TRUE], m, "none")

(* Paginator.stop (paginator.py): View.stop(), then one of delete, remove  *)
(* the view, disable the children and show them, or nothing.               *)
stop(v, m) ==
    IF v._delete_message_after
    THEN Awaited([v EXCEPT !.stopped = TRUE], delete(m), "none")
    ELSE IF v._clear_after
    THEN Awaited([v EXCEPT !.stopped = TRUE], edit(m, "None", v), "none")
    ELSE IF v._disable_after
    THEN Awaited([disable_children(v) EXCEPT !.stopped = TRUE],
                 edit(m, "self", disable_children(v)), "none")
    ELSE Awaited([v EXCEPT !.stopped = TRUE], m, "none")

(* Paginator._stop_menu (advanced.py), with _disable_on_timeout as the     *)
(* disable flag.                                                           *)
_stop_menu(v, m) ==
    IF v._delete_message_after
    THEN Awaited([v EXCEPT !.stopped = TRUE], delete(m), "none")
    ELSE IF v._clear_after
    THEN Awaited([v EXCEPT !.stopped = TRUE], edit(m, "None", v), "none")
    ELSE IF v._disable_after
    THEN Awaited([disable_children(v) EXCEPT !.stopped = TRUE],
                 edit(m, "self", disable_children(v)), "none")
    ELSE Awaited([v EXCEPT !.stopped = TRUE], m, "none")

(* on_timeout: stop() in paginator.py, _stop_menu() in advanced.py; in     *)
(* basic_paginator.py the children are disabled and shown when             *)
(* disable_on_timeout is set.                                              *)
on_timeout(v, m) ==
    CASE v.kind = "paginator" -> stop(v, m)
      [] v.kind = "advanced" -> _stop_menu(v, m)
      [] OTHER ->
           IF v._disable_after
           THEN Awaited(disable_children(v), edit(m, "self", disable_children(v)),
                        "none")
           ELSE Awaited(v, m, "none")

(* The page a button turns to.                                             *)
turn_page(v, name) ==
    CASE name = "right" -> [v EXCEPT !.current_page = @ + 1]
      [] name = "left" -> [v EXCEPT !.current_page = @ - 1]
      [] name = "first" -> [v EXCEPT !.current_page = 0]
      [] name = "last" -> [v EXCEPT !.current_page = v.max_pages - 1]
      [] OTHER -> v

(* The buttons that lead nowhere from the current page are disabled, the   *)
(* others enabled.                                                         *)
set_disabled(v) ==
    disable(disable(disable(disable(v, "first", v.current_page = 0),
                            "left", v.current_page = 0),
                    "last", v.current_page >= v.max_pages - 1),
            "right", v.current_page >= v.max_pages - 1)

(* PaginatorButton.callback (paginator.py).  The coroutine runs without    *)
(* suspending up to the edit of the message, which carries the view as     *)
(* it is at that point; the edit itself completes later.  Should the edit  *)
(* of interaction.message fail, the same keywords go to view.message,      *)
(* which is that very message.                                             *)
callback(v, m, name) ==
    IF name = "stop" THEN stop(v, m)
    ELSE IF get_page_kwargs(set_disabled(turn_page(v, name)),
                            turn_page(v, name).current_page).err # "none"
    THEN Awaited(set_disabled(turn_page(v, name)), m, "IndexError")
    ELSE Awaited(set_disabled(turn_page(v, name)),
                 edit(m, "self", set_disabled(turn_page(v, name))), "none")

(* PaginatorButton.callback (advanced.py).                                 *)
advanced_callback(v, m, name) ==
    IF name = "stop" THEN _stop_menu(v, m)
    ELSE Awaited(set_disabled(turn_page(v, name)),
                 edit(m, handle_page_content(turn_page(v, name)),
                      set_disabled(turn_page(v, name))),
                 "none")

(* PaginatorButton.callback (basic_paginator.py): one of three branches    *)
(* touches the flags.                                                      *)
basic_set_disabled(v) ==
    IF v.current_page >= v.max_pages - 1 THEN disable(v, "right", TRUE)
    ELSE IF v.current_page <= 0 THEN disable(v, "left", TRUE)
    ELSE disable(disable(v, "right", FALSE), "left", FALSE)

basic_callback(v, m, name) ==
    Awaited(basic_set_disabled(turn_page(v, name)),
            edit(m, handle_page_content(turn_page(v, name)),
                 basic_set_disabled(turn_page(v, name))),
            "none")

(* Paginator.interaction_check (paginator.py); the interaction has a user. *)
interaction_check(v, user) ==
    IF v.ctx = << >> \/ v.author_id = << >> THEN TRUE
    ELSE IF v.author_id # << >> /\ v.ctx = << >> THEN user = v.author_id[1]
    ELSE user \in {v.ctx[1].author} \cup v.ctx[1].owner_ids
                  \cup {v.ctx[1].owner_id[i] : i \in DOMAIN v.ctx[1].owner_id}

(* Paginator.interaction_check (advanced.py, basic_paginator.py).          *)
advanced_interaction_check(v, user) ==
    IF v.author_id = << >> THEN TRUE ELSE user = v.author_id[1]


-----------------------------------------------------------------------------
(* SpecPaginators: a Paginator of one of the three scripts is built and    *)
(* sent; users press the buttons the message shows as enabled, the         *)
(* requests are applied to the message one by one, and the view may time   *)
(* out.                                                                    *)

(* The largest number of pages.                                            *)
MaxPages == 3
(* The most requests in flight when a press is admitted, and how far past  *)
(* either end of the pages presses are followed.                           *)
MaxPending == 2

Users == {"author", "invoker", "owner", "stranger"}
Contexts == {<< >>, <<[author |-> "invoker", owner_id |-> <<"owner">>, owner_ids |-> {}]>>}

InitPaginators ==
    \E kind \in {"paginator", "advanced", "basic"}, pages \in 1..MaxPages,
       author_id \in {<< >>, <<"author">>}, ctx \in Contexts,
       disable_after \in BOOLEAN, delete_message_after \in BOOLEAN,
       clear_after \in BOOLEAN :
        /\ kind # "paginator" => ctx = << >>
        /\ kind = "basic" => ~delete_message_after /\ ~clear_after
        /\ author_id # << >> /\ ctx # << >> => ~delete_message_after /\ ~clear_after
        /\ view = Paginator(kind, pages, author_id, ctx, disable_after,
                            delete_message_after, clear_after)
        /\ message = send(Paginator(kind, pages, author_id, ctx, disable_after,
                                    delete_message_after, clear_after))
        /\ emb = << >>
        /\ heap = << >>
        /\ ret = Called("send", "vw", "none", FALSE, 0)

(* A press reaches the view while the view is running and the message      *)
(* shows the button as enabled; interaction_check comes first, then the    *)
(* button's callback.                                                      *)
Allowed(user) ==
    IF view.kind = "paginator" THEN interaction_check(view, user)
    ELSE advanced_interaction_check(view, user)

Pressed(name) ==
    CASE view.kind = "paginator" -> callback(view, message, name)
      [] view.kind = "advanced" -> advanced_callback(view, message, name)
      [] OTHER -> basic_callback(view, message, name)

Press(user, name) ==
    /\ ~view.stopped
    /\ ~message.deleted
    /\ name \in message.shown
    /\ Len(message.requests) < MaxPending
    /\ view.current_page >= 0 - MaxPending
    /\ view.current_page <= view.max_pages - 1 + MaxPending
    /\ Allowed(user)
    /\ view' = Pressed(name).view
    /\ message' = Pressed(name).message
    /\ ret' = Called("callback", name, Pressed(name).err, FALSE, 0)
    /\ UNCHANGED <<emb, heap>>

Refuse(user, name) ==
    /\ ~view.stopped
    /\ ~message.deleted
    /\ name \in message.shown
    /\ ~Allowed(user)
    /\ ret' = Called("interaction_check", user, "none", FALSE, 0)
    /\ UNCHANGED <<emb, heap, view, message>>

(* The oldest request takes effect.  A deleted message takes no edit.      *)
Deliver ==
    /\ message.requests # << >>
    /\ message' =
           [message EXCEPT
              !.requests = Tail(@),
              !.deleted = @ \/ Head(message.requests).op = "delete",
              !.has_view = /\ @
                           /\ Head(message.requests).op # "delete"
                           /\ Head(message.requests).view # "None",
              !.shown = IF message.deleted \/ Head(message.requests).view = "unchanged"
                        THEN @
                        ELSE Head(message.requests).enabled]
    /\ ret' = Called(Head(message.requests).op, "message", "none", FALSE, 0)
    /\ UNCHANGED <<emb, heap, view>>

(* The view times out: it is finished, and on_timeout runs.                *)
Timeout ==
    /\ ~view.stopped
    /\ view' = [on_timeout(view, message).view EXCEPT !.stopped = TRUE]
    /\ message' = on_timeout(view, message).message
    /\ ret' = Called("on_timeout", "vw", "none", FALSE, 0)
    /\ UNCHANGED <<emb, heap>>

NextPaginators ==
    \/ \E user \in Users, name \in {"first", "left", "stop", "right", "last"} :
           Press(user, name)
    \/ \E user \in Users, name \in {"first", "left", "stop", "right", "last"} :
           Refuse(user, name)
    \/ Deliver
    \/ Timeout

SpecPaginators == InitPaginators /\ [][NextPaginators]_vars

-----------------------------------------------------------------------------
(* Claims about the paginators                                             *)

(* C26: in paginator.py with at least two pages, in every reachable state  *)
(* current_page is one of 0 .. max_pages - 1, and no callback has ended    *)
(* with the IndexError of pages[current_page]; presses are admitted by     *)
(* what the message shows, so one may come before the edit of the one      *)
(* before is applied.                                                      *)
C26_PageInRange ==
    view.kind = "paginator" /\ view.max_pages >= 2
        => /\ 0 <= view.current_page
           /\ view.current_page <= view.max_pages - 1
           /\ ret.err # "IndexError"

(* C27: in basic_paginator.py, after construction and after the presses    *)
(* that follow, for every number of pages from 1 on: the left button is    *)
(* disabled exactly when current_page <= 0, the right button exactly when  *)
(* current_page >= max_pages - 1, and current_page is one of               *)
(* 0 .. max_pages - 1.                                                     *)
C27_BasicButtonsMatchPage ==
    view.kind = "basic" /\ ~view.stopped
        => /\ disabled(view, "left") <=> view.current_page <= 0
           /\ disabled(view, "right") <=> view.current_page >= view.max_pages - 1
           /\ 0 <= view.current_page
           /\ view.current_page <= view.max_pages - 1

(* C28: in paginator.py, a view made with author_id and no ctx lets an     *)
(* interaction through only if its user is author_id; a view made with ctx *)
(* and no author_id only if its user is the author of ctx or an owner of   *)
(* the bot.                                                                *)
C28_OnlyAuthorPasses ==
    view.kind = "paginator" =>
        \A user \in Users :
            /\ view.author_id # << >> /\ view.ctx = << >> /\ interaction_check(view, user)
                   => user = view.author_id[1]
            /\ view.author_id = << >> /\ view.ctx # << >> /\ interaction_check(view, user)
                   => user \in {"invoker", "owner"}

(* C29: in paginator.py and advanced.py, with the default buttons and at   *)
(* least two pages, the children of the view stand in ascending order of   *)
(* their buttons' positions.                                               *)
C29_ChildrenByPosition ==
    view.kind \in {"paginator", "advanced"} /\ view.max_pages >= 2
        => \A i \in 1..Len(view.children), j \in 1..Len(view.children) :
               i < j => position(view.kind, view.children[i])
                            < position(view.kind, view.children[j])

(* C30: in paginator.py and advanced.py, a press of the stop button and a  *)
(* timeout stop the view and then issue at most one request on the         *)
(* message: a delete if delete_message_after is set; else an edit with     *)
(* view=None if clear_after is set; else, if the disable flag is set, an   *)
(* edit showing the view with every child disabled; else none, the         *)
(* message being left as it is.  The flags of the buttons change in the    *)
(* third case only.                                                        *)
C30_StopActsOnceByPriority ==
    [][(/\ view.kind \in {"paginator", "advanced"}
        /\ \/ ret'.op = "on_timeout"
           \/ ret'.op = "callback" /\ ret'.on = "stop")
           => /\ view'.stopped
              /\ message'.shown = message.shown
              /\ message'.deleted = message.deleted
              /\ message'.has_view = message.has_view
              /\ IF view._delete_message_after
                 THEN /\ message'.requests = Append(message.requests,
                              [op |-> "delete", view |-> "unchanged", enabled |-> {}])
                      /\ view'.disabled = view.disabled
                 ELSE IF view._clear_after
                 THEN /\ message'.requests = Append(message.requests,
                              [op |-> "edit", view |-> "None", enabled |-> {}])
                      /\ view'.disabled = view.disabled
                 ELSE IF view._disable_after
                 THEN /\ message'.requests = Append(message.requests,
                              [op |-> "edit", view |-> "self", enabled |-> {}])
                      /\ \A i \in 1..Len(view'.children) :
                             disabled(view', view'.children[i])
                 ELSE /\ message'.requests = message.requests
                      /\ view'.disabled = view.disabled]_vars

(* The stop button of paginator.py was pressed on the second of three      *)
(* pages with all three flags set: the view is stopped, the one request    *)
(* issued since the page was turned is a delete, and the buttons are as    *)
(* the turn of the page left them.                                         *)
C30_Witness ==
    /\ view.kind = "paginator"
    /\ ret.op = "callback"
    /\ ret.on = "stop"
    /\ view.stopped
    /\ view.current_page = 1
    /\ view._delete_message_after /\ view._clear_after /\ view._disable_after
    /\ message.requests = <<[op |-> "delete", view |-> "unchanged", enabled |-> {}]>>
    /\ ~disabled(view, "left")
    /\ ~disabled(view, "right")

====
